---- MODULE Spec2Model ----
(***************************************************************************)
(* The conversational command-understanding layer of the CRM bot           *)
(* (app/ai/voice_ai_manager.py): the intent detector, the per-user         *)
(* context store with its TTL sweep, and the dialogue orchestrator         *)
(* (VoiceAIManager.process_text / process_voice).                          *)
(*                                                                         *)
(* Texts are sequences of characters.  A Latin character is the one-letter *)
(* string itself; a Cyrillic letter is written "cy_<translit>" (capital:   *)
(* "CY_<TRANSLIT>"), so that "cy_o" (U+043E) and "o" (U+006F) differ as    *)
(* they do in Python.  "x in s" of Python is Contains(s, x).               *)
(***************************************************************************)
EXTENDS Integers, Sequences, FiniteSets, TLC

\* Optional values: Python's None is the empty tuple, a value x is <<x>>.
None == <<>>

Some(x) == <<x>>

Val(o) == o[1]

(***************************************************************************)
(* Strings                                                                 *)
(***************************************************************************)

\* str.lower() on one character, for the capitals that occur in the inputs.
LowerChar(c) ==
  CASE c = "Y" -> "y"
    [] c = "N" -> "n"
    [] c = "D" -> "d"
    [] c = "S" -> "s"
    [] c = "CY_T" -> "cy_t"
    [] c = "CY_N" -> "cy_n"
    [] c = "CY_P" -> "cy_p"
    [] c = "CY_I" -> "cy_i"
    [] c = "CY_L" -> "cy_l"
    [] c = "CY_D" -> "cy_d"
    [] OTHER -> c

\* text.lower()
Lower(text) == [i \in 1..Len(text) |-> LowerChar(text[i])]

\* Does needle start at position i (1-based) of text?
StartsAt(text, i, needle) ==
  /\ i >= 1
  /\ i + Len(needle) - 1 <= Len(text)
  /\ \A k \in 1..Len(needle) : text[i + k - 1] = needle[k]

\* needle in text
Contains(text, needle) ==
  \E i \in 1..(Len(text) - Len(needle) + 1) : StartsAt(text, i, needle)

\* any(w in text for w in words)
ContainsAny(text, words) ==
  \E k \in 1..Len(words) : Contains(text, words[k])

\* text.find(needle): the first position (1-based), 0 when absent.
Find(text, needle) ==
  IF Contains(text, needle)
    THEN CHOOSE i \in 1..Len(text) :
           /\ StartsAt(text, i, needle)
           /\ \A j \in 1..(i - 1) : ~StartsAt(text, j, needle)
    ELSE 0

IsSpace(c) == c = " "

Digits == <<"0", "1", "2", "3", "4", "5", "6", "7", "8", "9">>

IsDigit(c) == \E d \in 1..10 : Digits[d] = c

DigitValue(c) == (CHOOSE d \in 1..10 : Digits[d] = c) - 1

\* The ASCII characters that are neither \w nor \s (but for the double
\* quote, the backslash and the backquote, which no input here holds).
AsciiMarks ==
  {"!", "#", "$", "%", "&", "'", "(", ")", "*", "+", ",", "-", ".", "/",
   ":", ";", "<", "=", ">", "?", "@", "[", "]", "^", "{", "|", "}",
   "~"}

\* \w: a letter, a digit or the underscore.
IsWordChar(c) == ~IsSpace(c) /\ c \notin AsciiMarks

\* text.strip()
RECURSIVE LStrip(_)
LStrip(text) ==
  IF text # <<>> /\ IsSpace(Head(text)) THEN LStrip(Tail(text)) ELSE text

RECURSIVE RStrip(_)
RStrip(text) ==
  IF text # <<>> /\ IsSpace(text[Len(text)])
    THEN RStrip(SubSeq(text, 1, Len(text) - 1))
    ELSE text

Strip(text) == RStrip(LStrip(text))

(***************************************************************************)
(* Intent detection: the pattern table, in its declared order.             *)
(***************************************************************************)

PATTERNS ==
  <<
    [ intent |-> "CREATE_LEAD",
      keywords |-> <<
          <<"cy_l", "cy_i", "cy_d">>,
          <<"cy_l", "cy_i", "cy_d", "cy_a">>,
          <<"cy_l", "cy_i", "cy_d", "cy_i", "cy_v">> >>,
      verbs |-> <<
          <<"cy_d", "cy_o", "cy_d", "cy_a", "cy_j">>,
          <<"cy_d", "cy_o", "cy_d", "cy_a", "cy_t", "cy_y">>,
          <<"cy_p", "cy_o", "cy_t", "cy_r", "cy_i", "cy_b", "cy_n", "cy_o">>,
          <<"cy_s", "cy_t", "cy_v", "cy_o", "cy_r", "cy_y">>,
          <<"cy_s", "cy_t", "cy_v", "cy_o", "cy_r", "cy_y", "cy_t", "cy_y">>,
          <<"cy_n", "cy_o", "cy_v", "cy_y", "cy_j">>,
          <<"n", "e", "w">>,
          <<"a", "d", "d">>,
          <<"c", "r", "e", "a", "t", "e">> >>,
      phrases |-> <<
          <<"cy_d", "cy_o", "cy_d", "cy_a", "cy_j", " ", "cy_l", "cy_i", "cy_d", "cy_a">>,
          <<"cy_d", "cy_o", "cy_d", "cy_a", "cy_t", "cy_y", " ", "cy_l", "cy_i", "cy_d", "cy_a">>,
          <<"cy_p", "cy_o", "cy_t", "cy_r", "cy_i", "cy_b", "cy_n", "cy_o", " ", "cy_d", "cy_o", "cy_d", "cy_a", "cy_t", "cy_y">>,
          <<"cy_n", "cy_o", "cy_v", "cy_y", "cy_j", " ", "cy_l", "cy_i", "cy_d", "cy_a">>,
          <<"n", "e", "w", " ", "l", "e", "a", "d">> >> ],
    [ intent |-> "LIST_LEADS",
      keywords |-> <<
          <<"cy_l", "cy_i", "cy_d">>,
          <<"cy_l", "cy_i", "cy_d", "cy_y">>,
          <<"cy_l", "cy_i", "cy_d", "cy_i", "cy_v">>,
          <<"l", "e", "a", "d">>,
          <<"l", "e", "a", "d", "s">> >>,
      verbs |-> <<
          <<"cy_p", "cy_o", "cy_k", "cy_a", "cy_zh", "cy_y">>,
          <<"cy_p", "cy_o", "cy_k", "cy_a", "cy_z", "cy_a", "cy_t", "cy_y">>,
          <<"cy_s", "cy_p", "cy_y", "cy_s", "cy_o", "cy_k">>,
          <<"s", "h", "o", "w">>,
          <<"l", "i", "s", "t">>,
          <<"cy_m", "cy_o", "cy_yi">>,
          <<"cy_v", "cy_s", "cy_i">> >>,
      phrases |-> <<
          <<"cy_p", "cy_o", "cy_k", "cy_a", "cy_zh", "cy_y", " ", "cy_l", "cy_i", "cy_d", "cy_y">>,
          <<"s", "h", "o", "w", " ", "l", "e", "a", "d", "s">>,
          <<"cy_m", "cy_o", "cy_yi", " ", "cy_l", "cy_i", "cy_d", "cy_y">>,
          <<"cy_s", "cy_p", "cy_y", "cy_s", "cy_o", "cy_k", " ", "cy_l", "cy_i", "cy_d", "cy_i", "cy_v">> >> ],
    [ intent |-> "SHOW_NOTES",
      keywords |-> <<
          <<"cy_n", "cy_o", "cy_t", "cy_a", "cy_t", "cy_k">>,
          <<"cy_n", "cy_o", "cy_t", "cy_a", "cy_t", "cy_o", "cy_k">>,
          <<"cy_n", "cy_o", "cy_t", "cy_a", "cy_t", "cy_k", "cy_y">>,
          <<"cy_z", "cy_a", "cy_m", "cy_i", "cy_t">>,
          <<"n", "o", "t", "e">>,
          <<"n", "o", "t", "e", "s">> >>,
      verbs |-> <<
          <<"cy_p", "cy_o", "cy_k", "cy_a", "cy_zh", "cy_y">>,
          <<"cy_p", "cy_o", "cy_k", "cy_a", "cy_z", "cy_a", "cy_t", "cy_y">>,
          <<"s", "h", "o", "w">>,
          <<"cy_m", "cy_o", "cy_yi">> >>,
      phrases |-> <<
          <<"cy_p", "cy_o", "cy_k", "cy_a", "cy_zh", "cy_y", " ", "cy_n", "cy_o", "cy_t", "cy_a", "cy_t", "cy_k", "cy_y">>,
          <<"s", "h", "o", "w", " ", "n", "o", "t", "e", "s">> >> ],
    [ intent |-> "ADD_NOTE",
      keywords |-> <<
          <<"cy_n", "cy_o", "cy_t", "cy_a", "cy_t", "cy_k">>,
          <<"cy_n", "cy_o", "cy_t", "cy_a", "cy_t", "cy_k", "cy_u">>,
          <<"cy_z", "cy_a", "cy_m", "cy_i", "cy_t">>,
          <<"n", "o", "t", "e">> >>,
      verbs |-> <<
          <<"cy_d", "cy_o", "cy_d", "cy_a", "cy_j">>,
          <<"cy_d", "cy_o", "cy_d", "cy_a", "cy_t", "cy_y">>,
          <<"cy_z", "cy_a", "cy_p", "cy_y", "cy_sh", "cy_y">>,
          <<"cy_z", "cy_a", "cy_p", "cy_y", "cy_s", "cy_a", "cy_t", "cy_y">>,
          <<"a", "d", "d">>,
          <<"c", "r", "e", "a", "t", "e">> >>,
      phrases |-> <<
          <<"cy_d", "cy_o", "cy_d", "cy_a", "cy_j", " ", "cy_n", "cy_o", "cy_t", "cy_a", "cy_t", "cy_k", "cy_u">>,
          <<"a", "d", "d", " ", "n", "o", "t", "e">> >> ],
    [ intent |-> "STATS",
      keywords |-> <<
          <<"cy_s", "cy_t", "cy_a", "cy_t", "cy_y", "cy_s", "cy_t", "cy_y", "cy_k">>,
          <<"cy_z", "cy_v", "cy_i", "cy_t">>,
          <<"s", "t", "a", "t", "s">>,
          <<"cy_d", "cy_a", "cy_sh", "cy_b", "cy_o", "cy_r", "cy_d">>,
          <<"d", "a", "s", "h", "b", "o", "a", "r", "d">> >>,
      verbs |-> <<
          <<"cy_p", "cy_o", "cy_k", "cy_a", "cy_zh", "cy_y">>,
          <<"s", "h", "o", "w">> >>,
      phrases |-> <<
          <<"cy_s", "cy_t", "cy_a", "cy_t", "cy_y", "cy_s", "cy_t", "cy_y", "cy_k", "cy_a">>,
          <<"s", "h", "o", "w", " ", "s", "t", "a", "t", "s">> >> ],
    [ intent |-> "SEARCH",
      keywords |-> <<
          <<"cy_z", "cy_n", "cy_a", "cy_j", "cy_d", "cy_y">>,
          <<"cy_p", "cy_o", "cy_sh", "cy_u", "cy_k">>,
          <<"s", "e", "a", "r", "c", "h">>,
          <<"f", "i", "n", "d">>,
          <<"cy_sh", "cy_u", "cy_k", "cy_a", "cy_j">> >>,
      verbs |-> <<
          <<"cy_z", "cy_n", "cy_a", "cy_j", "cy_d", "cy_y">>,
          <<"cy_sh", "cy_u", "cy_k", "cy_a", "cy_j">>,
          <<"s", "e", "a", "r", "c", "h">>,
          <<"f", "i", "n", "d">> >>,
      phrases |-> <<
          <<"cy_z", "cy_n", "cy_a", "cy_j", "cy_d", "cy_y">>,
          <<"s", "e", "a", "r", "c", "h">> >> ],
    [ intent |-> "SALES",
      keywords |-> <<
          <<"cy_p", "cy_r", "cy_o", "cy_d", "cy_a", "cy_zh">>,
          <<"s", "a", "l", "e">>,
          <<"s", "a", "l", "e", "s">>,
          <<"p", "i", "p", "e", "l", "i", "n", "e">>,
          <<"cy_v", "cy_o", "cy_r", "cy_o", "cy_n", "cy_k">> >>,
      verbs |-> <<
          <<"cy_p", "cy_o", "cy_k", "cy_a", "cy_zh", "cy_y">>,
          <<"s", "h", "o", "w">> >>,
      phrases |-> <<
          <<"cy_p", "cy_r", "cy_o", "cy_d", "cy_a", "cy_zh", "cy_i">>,
          <<"s", "a", "l", "e", "s">>,
          <<"p", "i", "p", "e", "l", "i", "n", "e">> >> ],
    [ intent |-> "ANALYZE_LEAD",
      keywords |-> <<
          <<"cy_h", "cy_a", "cy_r", "cy_ya", "cy_ch">>,
          <<"cy_n", "cy_a", "cy_j", "cy_k", "cy_r", "cy_a", "cy_shch">>,
          <<"b", "e", "s", "t">>,
          <<"h", "o", "t">>,
          <<"t", "o", "p">>,
          <<"cy_o", "cy_ts", "cy_i", "cy_n">>,
          <<"s", "c", "o", "r", "e">>,
          <<"cy_a", "cy_n", "cy_a", "cy_l", "cy_i", "cy_z">>,
          <<"a", "n", "a", "l", "y", "z", "e">> >>,
      verbs |-> <<
          <<"cy_o", "cy_ts", "cy_i", "cy_n", "cy_y">>,
          <<"cy_p", "cy_r", "cy_o", "cy_a", "cy_n", "cy_a", "cy_l", "cy_i", "cy_z", "cy_u", "cy_j">>,
          <<"a", "n", "a", "l", "y", "z", "e">> >>,
      phrases |-> <<
          <<"cy_h", "cy_a", "cy_r", "cy_ya", "cy_ch", "cy_i", " ", "cy_l", "cy_i", "cy_d", "cy_y">>,
          <<"h", "o", "t", " ", "l", "e", "a", "d", "s">>,
          <<"cy_o", "cy_ts", "cy_i", "cy_n", "cy_y", " ", "cy_l", "cy_i", "cy_d", "cy_a">> >> ],
    [ intent |-> "EDIT_LEAD",
      keywords |-> <<
          <<"cy_l", "cy_i", "cy_d">>,
          <<"cy_l", "cy_i", "cy_d", "cy_a">> >>,
      verbs |-> <<
          <<"cy_r", "cy_e", "cy_d", "cy_a", "cy_h", "cy_u", "cy_j">>,
          <<"cy_r", "cy_e", "cy_d", "cy_a", "cy_h", "cy_u", "cy_v", "cy_a", "cy_t", "cy_y">>,
          <<"cy_z", "cy_m", "cy_i", "cy_n", "cy_y">>,
          <<"cy_z", "cy_m", "cy_i", "cy_n", "cy_y", "cy_t", "cy_y">>,
          <<"e", "d", "i", "t">>,
          <<"c", "h", "a", "n", "g", "e">>,
          <<"cy_o", "cy_n", "cy_o", "cy_v">> >>,
      phrases |-> <<
          <<"cy_r", "cy_e", "cy_d", "cy_a", "cy_h", "cy_u", "cy_j", " ", "cy_l", "cy_i", "cy_d", "cy_a">>,
          <<"e", "d", "i", "t", " ", "l", "e", "a", "d">> >> ],
    [ intent |-> "DELETE_LEAD",
      keywords |-> <<
          <<"cy_l", "cy_i", "cy_d">>,
          <<"cy_l", "cy_i", "cy_d", "cy_a">>,
          <<"cy_l", "cy_i", "cy_d", "cy_i", "cy_v">> >>,
      verbs |-> <<
          <<"cy_v", "cy_y", "cy_d", "cy_a", "cy_l", "cy_y">>,
          <<"cy_v", "cy_y", "cy_d", "cy_a", "cy_l", "cy_y", "cy_t", "cy_y">>,
          <<"d", "e", "l", "e", "t", "e">>,
          <<"r", "e", "m", "o", "v", "e">> >>,
      phrases |-> <<
          <<"cy_v", "cy_y", "cy_d", "cy_a", "cy_l", "cy_y", " ", "cy_l", "cy_i", "cy_d", "cy_a">>,
          <<"d", "e", "l", "e", "t", "e", " ", "l", "e", "a", "d">> >> ]
  >>
TierThreeConfirmWords ==
  <<
     <<"cy_t", "cy_a", "cy_k">>,
     <<"cy_t", "cy_a", "cy_k">>,
     <<"y", "e", "s">>,
     <<"cy_p", "cy_i", "cy_d", "cy_t", "cy_v", "cy_e", "cy_r", "cy_d", "cy_zh", "cy_u", "cy_yu">>,
     <<"c", "o", "n", "f", "i", "r", "m">>,
     <<"cy_o", "cy_k">>,
     <<"cy_o", "cy_k", "cy_e", "cy_j">> >>
TierThreeCancelWords ==
  <<
     <<"cy_n", "cy_i">>,
     <<"n", "o">>,
     <<"cy_s", "cy_k", "cy_a", "cy_s", "cy_u", "cy_j">>,
     <<"c", "a", "n", "c", "e", "l">>,
     <<"cy_v", "cy_i", "cy_d", "cy_m", "cy_i", "cy_n", "cy_a">> >>
ReplyYesWords ==
  <<
     <<"cy_t", "cy_a", "cy_k">>,
     <<"y", "e", "s">>,
     <<"cy_p", "cy_i", "cy_d", "cy_t", "cy_v", "cy_e", "cy_r", "cy_d", "cy_zh", "cy_u", "cy_yu">>,
     <<"c", "o", "n", "f", "i", "r", "m">>,
     <<"cy_o", "cy_k">> >>
ReplyNoWords ==
  <<
     <<"cy_n", "cy_i">>,
     <<"n", "o">>,
     <<"cy_s", "cy_k", "cy_a", "cy_s", "cy_u", "cy_j">>,
     <<"c", "a", "n", "c", "e", "l">> >>
pronoun_patterns ==
  <<
     <<"cy_t", "cy_o", "cy_h", "cy_o", " ", "cy_l", "cy_i", "cy_d", "cy_a">>,
     <<"cy_t", "cy_o", "cy_h", "cy_o">>,
     <<"cy_j", "cy_o", "cy_h", "cy_o">>,
     <<"cy_j", "cy_o", "cy_m", "cy_u">>,
     <<"cy_n", "cy_soft", "cy_o", "cy_h", "cy_o">>,
     <<"cy_n", "cy_e", "cy_yi">>,
     <<"cy_o", "cy_s", "cy_t", "cy_a", "cy_n", "cy_n", "cy_soft", "cy_o", "cy_h", "cy_o">>,
     <<"cy_o", "cy_s", "cy_t", "cy_a", "cy_n", "cy_n", "cy_soft", "cy_o", "cy_m", "cy_u">>,
     <<"t", "h", "a", "t", " ", "l", "e", "a", "d">>,
     <<"t", "h", "a", "t", " ", "o", "n", "e">>,
     <<"t", "h", "e", " ", "p", "r", "e", "v", "i", "o", "u", "s">>,
     <<"h", "i", "m">> >>
note_verbs ==
  <<
     <<"cy_d", "cy_o", "cy_d", "cy_a", "cy_j", " ", "cy_n", "cy_o", "cy_t", "cy_a", "cy_t", "cy_k", "cy_u">>,
     <<"cy_z", "cy_a", "cy_p", "cy_y", "cy_sh", "cy_y">>,
     <<"cy_n", "cy_o", "cy_t", "cy_a", "cy_t", "cy_k", "cy_a">> >>

(***************************************************************************)
(* Entity extraction                                                       *)
(***************************************************************************)

\* Regular expressions of the shape used for the lead id: a sequence of
\* elements "lit" (a literal), "ws" (\s*), "opt" (x?), "cls" ([xy]) and
\* "num" (the capture group (\d+), always last).
lead_patterns ==
  << << [kind |-> "lit", arg |-> <<"cy_l", "cy_i", "cy_d">>],
        [kind |-> "ws", arg |-> <<>>],
        [kind |-> "opt", arg |-> "#"],
        [kind |-> "num", arg |-> <<>>] >>,
     << [kind |-> "lit", arg |-> <<"l", "e", "a", "d">>],
        [kind |-> "ws", arg |-> <<>>],
        [kind |-> "opt", arg |-> "#"],
        [kind |-> "num", arg |-> <<>>] >>,
     << [kind |-> "lit", arg |-> <<"cy_d", "cy_o">>],
        [kind |-> "ws", arg |-> <<>>],
        [kind |-> "lit", arg |-> <<"cy_l", "cy_i", "cy_d">>],
        [kind |-> "cls", arg |-> {"cy_a", "cy_u"}],
        [kind |-> "ws", arg |-> <<>>],
        [kind |-> "opt", arg |-> "#"],
        [kind |-> "num", arg |-> <<>>] >>,
     << [kind |-> "lit", arg |-> <<"cy_d", "cy_l", "cy_ya">>],
        [kind |-> "ws", arg |-> <<>>],
        [kind |-> "lit", arg |-> <<"cy_l", "cy_i", "cy_d">>],
        [kind |-> "cls", arg |-> {"cy_a", "cy_u"}],
        [kind |-> "ws", arg |-> <<>>],
        [kind |-> "opt", arg |-> "#"],
        [kind |-> "num", arg |-> <<>>] >>,
     << [kind |-> "lit", arg |-> <<"#">>],
        [kind |-> "num", arg |-> <<>>] >> >>

NoMatch == <<>>

RECURSIVE SkipSpaces(_, _)
SkipSpaces(text, i) ==
  IF i <= Len(text) /\ IsSpace(text[i]) THEN SkipSpaces(text, i + 1) ELSE i

\* The position after the longest run of digits starting at i.
RECURSIVE DigitsEnd(_, _)
DigitsEnd(text, i) ==
  IF i <= Len(text) /\ IsDigit(text[i]) THEN DigitsEnd(text, i + 1) ELSE i

\* re.match of pat[k..] at position i: the captured digits (never empty), or
\* NoMatch.  Every
\* quantifier of these patterns is followed by an element that cannot start
\* with what the quantifier consumes, so the greedy match is the only one.
RECURSIVE MatchFrom(_, _, _, _)
MatchFrom(text, i, pat, k) ==
  LET e == pat[k] IN
  CASE e.kind = "lit" ->
         IF StartsAt(text, i, e.arg)
           THEN MatchFrom(text, i + Len(e.arg), pat, k + 1)
           ELSE NoMatch
    [] e.kind = "ws" -> MatchFrom(text, SkipSpaces(text, i), pat, k + 1)
    [] e.kind = "opt" ->
         MatchFrom(text, IF i <= Len(text) /\ text[i] = e.arg THEN i + 1 ELSE i,
                   pat, k + 1)
    [] e.kind = "cls" ->
         IF i <= Len(text) /\ text[i] \in e.arg
           THEN MatchFrom(text, i + 1, pat, k + 1)
           ELSE NoMatch
    [] e.kind = "num" ->
         IF DigitsEnd(text, i) > i
           THEN SubSeq(text, i, DigitsEnd(text, i) - 1)
           ELSE NoMatch

\* re.search(pattern, text).group(1): the capture of the leftmost match.
ReSearch(pat, text) ==
  LET hits == {i \in 1..Len(text) : MatchFrom(text, i, pat, 1) # NoMatch} IN
  IF hits = {} THEN NoMatch
  ELSE MatchFrom(text, CHOOSE i \in hits : \A j \in hits : i <= j, pat, 1)

\* int(digits)
RECURSIVE ToInt(_)
ToInt(digits) ==
  IF digits = <<>> THEN 0
  ELSE 10 * ToInt(SubSeq(digits, 1, Len(digits) - 1))
       + DigitValue(digits[Len(digits)])

\* The lead id: the first pattern, in list order, that matches text_lower.
ExtractLeadId(text_lower) ==
  LET matching == {k \in 1..Len(lead_patterns) :
                     ReSearch(lead_patterns[k], text_lower) # NoMatch} IN
  IF matching = {} THEN None
  ELSE Some(ToInt(ReSearch(lead_patterns[CHOOSE k \in matching :
                                           \A j \in matching : k <= j],
                           text_lower)))

\* The note content: what follows the first note verb (in list order) that
\* occurs in text_lower, stripped; None when that is empty.
ExtractNoteContent(text) ==
  LET text_lower == Lower(text)
      present == {k \in 1..Len(note_verbs) : Contains(text_lower, note_verbs[k])}
  IN
  IF present = {} THEN None
  ELSE LET verb == note_verbs[CHOOSE k \in present : \A j \in present : k <= j]
           idx == Find(text_lower, verb) - 1 + Len(verb)
           content == Strip(SubSeq(text, idx + 1, Len(text)))
       IN IF content # <<>> THEN Some(content) ELSE None

Max(a, b) == IF a >= b THEN a ELSE b

Min(a, b) == IF a <= b THEN a ELSE b

\* The digit counts of phone_patterns and the shortest name kept.
UkrainianPhoneTail == 9

PlainPhoneMin == 10

PlainPhoneMax == 12

MinNameLen == 2

\* \+? at position s: where the digits of a phone pattern start.
PhoneCore(text, s) == IF s <= Len(text) /\ text[s] = "+" THEN s + 1 ELSE s

\* phone_patterns[0], \+?380\d{9}: does the pattern match at position s?
UkrainianPhoneAt(text, s) ==
  /\ StartsAt(text, PhoneCore(text, s), <<"3", "8", "0">>)
  /\ DigitsEnd(text, PhoneCore(text, s) + 3) - (PhoneCore(text, s) + 3)
       >= UkrainianPhoneTail

\* phone_patterns[1], \+?\d{10,12}: does the pattern match at position s?
PlainPhoneAt(text, s) ==
  DigitsEnd(text, PhoneCore(text, s)) - PhoneCore(text, s) >= PlainPhoneMin

\* re.search: the leftmost of the positions where a pattern matches.
Leftmost(hits) == CHOOSE s \in hits : \A t \in hits : s <= t

\* match.group() of the two phone patterns for a match at position s: the
\* optional plus and the greedy digits.
UkrainianPhoneFrom(text, s) ==
  SubSeq(text, s, PhoneCore(text, s) + 2 + UkrainianPhoneTail)

PlainPhoneFrom(text, s) ==
  SubSeq(text, s, Min(DigitsEnd(text, PhoneCore(text, s)),
                      PhoneCore(text, s) + PlainPhoneMax) - 1)

\* The phone, ukrainian and plain being the positions where the two
\* patterns match: the first pattern, in list order, that is found.
PhoneIn(text, ukrainian, plain) ==
  IF ukrainian # {} THEN Some(UkrainianPhoneFrom(text, Leftmost(ukrainian)))
  ELSE IF plain # {} THEN Some(PlainPhoneFrom(text, Leftmost(plain)))
  ELSE None

ExtractPhone(text) ==
  PhoneIn(text, {s \in 1..Len(text) : UkrainianPhoneAt(text, s)},
          {s \in 1..Len(text) : PlainPhoneAt(text, s)})

\* [\w\.-]
IsEmailChar(c) == IsWordChar(c) \/ c = "." \/ c = "-"

\* The letter class of name_patterns: the letters, but for the Ukrainian ghe
\* with upturn, which the class leaves out.
IsNameLetter(c) ==
  /\ IsWordChar(c)
  /\ ~IsDigit(c)
  /\ c \notin {"_", "cy_g", "CY_G"}

\* Is c in the character class: [\w\.-], \w or the letters of a name?
InClass(class, c) ==
  CASE class = "email" -> IsEmailChar(c)
    [] class = "word" -> IsWordChar(c)
    [] class = "name" -> IsNameLetter(c)

\* The first position of the run of characters of one class that ends at i,
\* and the position after the run that starts at i.
RECURSIVE RunStart(_, _, _)
RunStart(text, i, class) ==
  IF i >= 1 /\ InClass(class, text[i]) THEN RunStart(text, i - 1, class) ELSE i + 1

RECURSIVE RunEnd(_, _, _)
RunEnd(text, i, class) ==
  IF i <= Len(text) /\ InClass(class, text[i])
    THEN RunEnd(text, i + 1, class)
    ELSE i

\* [\w\.-]+@[\w\.-]+\.\w+ around the at sign at position a: the greedy
\* domain ends at a dot of the run after the at sign that has a character
\* before it and a word character after it, and at the last such dot.
EmailDots(text, a) ==
  {d \in (a + 2)..(RunEnd(text, a + 1, "email") - 2) :
     text[d] = "." /\ IsWordChar(text[d + 1])}

EmailAt(text, a) ==
  /\ text[a] = "@"
  /\ RunStart(text, a - 1, "email") < a
  /\ EmailDots(text, a) # {}

Rightmost(hits) == CHOOSE s \in hits : \A t \in hits : t <= s

\* email_match.group() for the at sign at position a and the last dot d.
EmailAround(text, a, d) ==
  SubSeq(text, RunStart(text, a - 1, "email"), RunEnd(text, d + 1, "word") - 1)

\* The email, hits being the at signs around which the pattern matches: the
\* leftmost match.
EmailIn(text, hits) ==
  IF hits = {} THEN None
  ELSE Some(EmailAround(text, Leftmost(hits),
                        Rightmost(EmailDots(text, Leftmost(hits)))))

ExtractEmail(text) == EmailIn(text, {a \in 1..Len(text) : EmailAt(text, a)})

\* (?:\s+[..]+)? after the first word of the group, which ends before word,
\* second being where the spaces after it end: the position after the group.
SecondWordEnd(text, word, second) ==
  IF second > word /\ RunEnd(text, second, "name") > second
    THEN RunEnd(text, second, "name")
    ELSE word

FirstWordEnd(text, word) == SecondWordEnd(text, word, SkipSpaces(text, word))

\* ([..]+(?:\s+[..]+)?) at position g: the position after the group, g when
\* no letter stands at g.
NameGroupEnd(text, g) == FirstWordEnd(text, RunEnd(text, g, "name"))

\* The group at position g: where it starts, 0 when no letter stands at g.
NameGroupFrom(text, g) == IF RunEnd(text, g, "name") > g THEN g ELSE 0

\* [.,]?\s* from position i, then the group.
NameGroupAfter(text, i) ==
  NameGroupFrom(text,
                SkipSpaces(text, IF i <= Len(text) /\ text[i] \in {".", ","}
                                   THEN i + 1 ELSE i))

\* name_patterns[0] at position p, under re.IGNORECASE: where the group
\* starts, 0 when there is no match.  The optional ending is tried first,
\* and given up when no name follows it: the ending is then the name.
LeadNameAt(text, p) ==
  IF ~StartsAt(Lower(text), p, <<"cy_l", "cy_i", "cy_d">>) THEN 0
  ELSE IF /\ p + 3 <= Len(text)
          /\ LowerChar(text[p + 3]) \in {"cy_a", "cy_u"}
          /\ NameGroupAfter(text, p + 4) # 0
    THEN NameGroupAfter(text, p + 4)
  ELSE NameGroupAfter(text, p + 3)

\* The words of name_patterns[1].
AddVerb == <<"cy_d", "cy_o", "cy_d", "cy_a", "cy_j">>

NewWord == <<"cy_n", "cy_o", "cy_v", "cy_o", "cy_h", "cy_o">>

LeadWord == <<"cy_l", "cy_i", "cy_d", "cy_a">>

\* (?:нового\s+)? at position a of the lowered text: the position after it,
\* the optional group being taken only when the lead word follows it.
AfterNewWord(low, a, b) ==
  IF StartsAt(low, a, NewWord) /\ b > a + Len(NewWord) /\ StartsAt(low, b, LeadWord)
    THEN b
    ELSE a

\* The rest of name_patterns[1] after the verb at p and the spaces that end
\* before a.
AddLeadNameFrom(text, low, p, a) ==
  IF /\ StartsAt(low, p, AddVerb)
     /\ a > p + Len(AddVerb)
     /\ StartsAt(low, AfterNewWord(low, a, SkipSpaces(low, a + Len(NewWord))),
                 LeadWord)
    THEN NameGroupAfter(text,
                        AfterNewWord(low, a, SkipSpaces(low, a + Len(NewWord)))
                          + Len(LeadWord))
    ELSE 0

\* name_patterns[1] at position p, under re.IGNORECASE.
AddLeadNameAt(text, p) ==
  AddLeadNameFrom(text, Lower(text), p, SkipSpaces(text, p + Len(AddVerb)))

\* name_patterns[k] at position p.
NameGroupAt(text, p, k) ==
  IF k = 1 THEN LeadNameAt(text, p) ELSE AddLeadNameAt(text, p)

\* match.group(1).strip() for the group that starts at g.
NameFrom(text, g) == Strip(SubSeq(text, g, NameGroupEnd(text, g) - 1))

\* The name of the leftmost match of name_patterns[k], hits being the
\* positions where it matches; None when the pattern is not found.
NameIn(text, k, hits) ==
  IF hits = {} THEN None
  ELSE Some(NameFrom(text, NameGroupAt(text, Leftmost(hits), k)))

NameFound(text, k) ==
  NameIn(text, k, {p \in 1..Len(text) : NameGroupAt(text, p, k) # 0})

name_stop_words ==
  << <<"cy_d", "cy_o", "cy_d", "cy_a", "cy_j">>,
     <<"cy_l", "cy_i", "cy_d", "cy_a">>,
     <<"cy_n", "cy_o", "cy_m", "cy_e", "cy_r">> >>

\* len(name) > 2 and not any(kw in name.lower() for kw in [...])
NameAccepted(found) ==
  /\ found # None
  /\ Len(Val(found)) > MinNameLen
  /\ ~ContainsAny(Lower(Val(found)), name_stop_words)

\* The lead name: the first pattern, in list order, whose leftmost match
\* gives an accepted name.
FirstAccepted(first, second) ==
  IF NameAccepted(first) THEN first
  ELSE IF NameAccepted(second) THEN second
  ELSE None

ExtractLeadName(text) == FirstAccepted(NameFound(text, 1), NameFound(text, 2))

\* The source, from the words of text_lower.
ExtractSource(text_lower) ==
  IF \/ Contains(text_lower, <<"cy_s", "cy_k", "cy_a", "cy_n", "cy_e", "cy_r">>)
     \/ Contains(text_lower, <<"s", "c", "a", "n", "n", "e", "r">>)
    THEN Some("SCANNER")
  ELSE IF \/ Contains(text_lower,
                      <<"cy_p", "cy_a", "cy_r", "cy_t", "cy_n", "cy_e", "cy_r">>)
          \/ Contains(text_lower, <<"p", "a", "r", "t", "n", "e", "r">>)
    THEN Some("PARTNER")
  ELSE None

\* Entities(): the fields the orchestrator reads.
EmptyEntities ==
  [lead_id |-> None, lead_name |-> None, phone |-> None, email |-> None,
   source |-> None, note_content |-> None]

extract_entities(text) ==
  [lead_id |-> ExtractLeadId(Lower(text)),
   lead_name |-> ExtractLeadName(text),
   phone |-> ExtractPhone(text),
   email |-> ExtractEmail(text),
   source |-> ExtractSource(Lower(text)),
   note_content |-> ExtractNoteContent(text)]

\* Python's truth value of an Optional[int] and of an Optional[str].
TruthyInt(o) == o # None /\ Val(o) # 0

TruthyStr(o) == o # None /\ Val(o) # <<>>

(***************************************************************************)
(* IntentDetector.detect                                                   *)
(***************************************************************************)

\* Confidence is kept in hundredths (0.9 is 90).
MakeAction(intent, entities, confidence, text) ==
  [intent |-> intent,
   entities |-> entities,
   confidence |-> confidence,
   requires_confirmation |-> FALSE,
   original_text |-> text]

\* "if current_context and not entities.lead_id: entities.lead_id = ..."
FillLeadId(entities, current_context) ==
  IF current_context # None /\ ~TruthyInt(entities.lead_id)
    THEN [entities EXCEPT !.lead_id = Val(current_context).last_lead_id]
    ELSE entities

\* Tier 1: the intents (by position in PATTERNS) one of whose phrases occurs.
PhraseMatches(text_lower) ==
  {k \in 1..Len(PATTERNS) : ContainsAny(text_lower, PATTERNS[k].phrases)}

\* Tier 2: the intents with a keyword and a verb in the text.
KeywordVerbMatches(text_lower) ==
  {k \in 1..Len(PATTERNS) :
     /\ ContainsAny(text_lower, PATTERNS[k].keywords)
     /\ ContainsAny(text_lower, PATTERNS[k].verbs)}

\* The loops of detect returning on the last match instead of the first.
First_is_last(S) == CHOOSE k \in S : \A j \in S : k >= j

First(S) == CHOOSE k \in S : \A j \in S : k <= j

\* Tier 3 of detect, on a text no tier-1/2 rule matched.
TierThree(text_lower) ==
  IF ContainsAny(text_lower, TierThreeConfirmWords) THEN "CONFIRM"
  ELSE IF ContainsAny(text_lower, TierThreeCancelWords) THEN "CANCEL"
  ELSE "UNKNOWN"

\* detect asking tier 3 before the two pattern loops.
Cascade_reply_first(text) ==
  LET text_lower == Lower(text)
      phrase == PhraseMatches(text_lower)
      keyverb == KeywordVerbMatches(text_lower)
  IN
  IF TierThree(text_lower) = "CONFIRM"
    THEN [tier |-> 3, intent |-> "CONFIRM",
          confidence |-> 95, entities |-> EmptyEntities]
  ELSE IF TierThree(text_lower) = "CANCEL"
    THEN [tier |-> 3, intent |-> "CANCEL",
          confidence |-> 95, entities |-> EmptyEntities]
  ELSE IF phrase # {}
    THEN [tier |-> 1, intent |-> PATTERNS[First(phrase)].intent,
          confidence |-> 90, entities |-> extract_entities(text)]
  ELSE IF keyverb # {}
    THEN [tier |-> 2, intent |-> PATTERNS[First(keyverb)].intent,
          confidence |-> 80, entities |-> extract_entities(text)]
  ELSE [tier |-> 0, intent |-> "UNKNOWN",
        confidence |-> 30, entities |-> extract_entities(text)]

\* detect with its two loops in the other order: keyword + verb first.
Cascade_keyword_first(text) ==
  LET text_lower == Lower(text)
      phrase == PhraseMatches(text_lower)
      keyverb == KeywordVerbMatches(text_lower)
  IN
  IF keyverb # {}
    THEN [tier |-> 2, intent |-> PATTERNS[First(keyverb)].intent,
          confidence |-> 80, entities |-> extract_entities(text)]
  ELSE IF phrase # {}
    THEN [tier |-> 1, intent |-> PATTERNS[First(phrase)].intent,
          confidence |-> 90, entities |-> extract_entities(text)]
  ELSE IF TierThree(text_lower) = "CONFIRM"
    THEN [tier |-> 3, intent |-> "CONFIRM",
          confidence |-> 95, entities |-> EmptyEntities]
  ELSE IF TierThree(text_lower) = "CANCEL"
    THEN [tier |-> 3, intent |-> "CANCEL",
          confidence |-> 95, entities |-> EmptyEntities]
  ELSE [tier |-> 0, intent |-> "UNKNOWN",
        confidence |-> 30, entities |-> extract_entities(text)]

\* The part of detect that reads the text alone: the tier that decides (0
\* when none does), the intent, the confidence and the extracted entities.
\* Tiers 1 and 2 then fill a missing lead id from the context.
Cascade(text) ==
  LET text_lower == Lower(text)
      phrase == PhraseMatches(text_lower)
      keyverb == KeywordVerbMatches(text_lower)
  IN
  IF phrase # {}
    THEN [tier |-> 1, intent |-> PATTERNS[First(phrase)].intent,
          confidence |-> 90, entities |-> extract_entities(text)]
  ELSE IF keyverb # {}
    THEN [tier |-> 2, intent |-> PATTERNS[First(keyverb)].intent,
          confidence |-> 80, entities |-> extract_entities(text)]
  ELSE IF TierThree(text_lower) = "CONFIRM"
    THEN [tier |-> 3, intent |-> "CONFIRM",
          confidence |-> 95, entities |-> EmptyEntities]
  ELSE IF TierThree(text_lower) = "CANCEL"
    THEN [tier |-> 3, intent |-> "CANCEL",
          confidence |-> 95, entities |-> EmptyEntities]
  ELSE [tier |-> 0, intent |-> "UNKNOWN",
        confidence |-> 30, entities |-> extract_entities(text)]

(***************************************************************************)
(* Inputs                                                                  *)
(***************************************************************************)

Users == {1, 2}

\* The number of calls in a behaviour, and the last clock value.
MaxTurns == 3

MaxTime == 3
\* The number of turns of a long session.
MaxSessionTurns == 12
\* How many process_voice calls wait for their transcription at one time.
MaxInflight == 2
\* The longest text given to the quality assessor.
MaxQualityLen == 6

\* Yes
T_yes == <<"Y", "e", "s">>
\* no
T_no == <<"n", "o">>
\* [t][a][k]
T_tak == <<"cy_t", "cy_a", "cy_k">>
\* [o][k][e][j]
T_okej == <<"cy_o", "cy_k", "cy_e", "cy_j">>
\* [v][i][d][m][i][n][a]
T_vidmina == <<"cy_v", "cy_i", "cy_d", "cy_m", "cy_i", "cy_n", "cy_a">>
\* [p][o][k][a][zh][y] [l][i][d][y]
T_pokazhy_lidy == <<"cy_p", "cy_o", "cy_k", "cy_a", "cy_zh", "cy_y", " ", "cy_l", "cy_i", "cy_d", "cy_y">>
\* show leads
T_show_leads == <<"s", "h", "o", "w", " ", "l", "e", "a", "d", "s">>
\* add note call him
T_add_note == <<"a", "d", "d", " ", "n", "o", "t", "e", " ", "c", "a", "l", "l", " ", "h", "i", "m">>
\* delete lead #12
T_delete_lead_12 == <<"d", "e", "l", "e", "t", "e", " ", "l", "e", "a", "d", " ", "#", "1", "2">>
\* new lead
T_new_lead == <<"n", "e", "w", " ", "l", "e", "a", "d">>
\* [r][e][d][a][h][u][j] [l][i][d] #7
T_edit_lid_7 == <<"cy_r", "cy_e", "cy_d", "cy_a", "cy_h", "cy_u", "cy_j", " ", "cy_l", "cy_i", "cy_d", " ", "#", "7">>
\* hello
T_hello == <<"h", "e", "l", "l", "o">>
\* show stats
T_stats == <<"s", "h", "o", "w", " ", "s", "t", "a", "t", "s">>

\* The texts typed in a session (Spec), and in a session with long pauses
\* (SpecTtl).
Texts ==
  {T_yes, T_no, T_vidmina, T_okej, T_pokazhy_lidy, T_show_leads, T_add_note,
   T_delete_lead_12, T_new_lead, T_edit_lid_7, T_hello}

TtlTexts == {T_delete_lead_12, T_new_lead, T_yes, T_okej, T_no, T_show_leads}

\* What transcription yields: nothing, or one of these texts.
VoiceTexts == {T_yes}

Transcripts == {None} \cup {Some(text) : text \in VoiceTexts}

\* add a note to him
T_add_a_note_to_him == <<"a", "d", "d", " ", "a", " ", "n", "o", "t", "e", " ", "t", "o", " ", "h", "i", "m">>
\* call him
T_call_him == <<"c", "a", "l", "l", " ", "h", "i", "m">>

\* Turns that refer back to a lead, name one, or do neither (SpecRef).
RefTexts ==
  {T_add_a_note_to_him, T_call_him, T_show_leads, T_hello, T_yes,
   T_delete_lead_12, T_edit_lid_7}

\* [d][o][d][a][j] [n][o][t][a][t][k][u] [d][o] [l][i][d][a]
T_dodaj_notatku_do_lida == <<"cy_d", "cy_o", "cy_d", "cy_a", "cy_j", " ", "cy_n", "cy_o", "cy_t", "cy_a", "cy_t", "cy_k", "cy_u", " ", "cy_d", "cy_o", " ", "cy_l", "cy_i", "cy_d", "cy_a">>
\* show stats for leads
T_show_stats_for_leads == <<"s", "h", "o", "w", " ", "s", "t", "a", "t", "s", " ", "f", "o", "r", " ", "l", "e", "a", "d", "s">>
\* show my lead notes
T_show_my_lead_notes == <<"s", "h", "o", "w", " ", "m", "y", " ", "l", "e", "a", "d", " ", "n", "o", "t", "e", "s">>
\* [v][y][d][a][l][y] [t][a] [z][m][i][n][y] [l][i][d]
T_vydaly_ta_zminy_lid == <<"cy_v", "cy_y", "cy_d", "cy_a", "cy_l", "cy_y", " ", "cy_t", "cy_a", " ", "cy_z", "cy_m", "cy_i", "cy_n", "cy_y", " ", "cy_l", "cy_i", "cy_d">>
\* find best score analyze
T_find_best_score == <<"f", "i", "n", "d", " ", "b", "e", "s", "t", " ", "s", "c", "o", "r", "e", " ", "a", "n", "a", "l", "y", "z", "e">>
\* [s][t][v][o][r][y] [s][p][y][s][o][k] [l][i][d]
T_stvory_spysok_lid == <<"cy_s", "cy_t", "cy_v", "cy_o", "cy_r", "cy_y", " ", "cy_s", "cy_p", "cy_y", "cy_s", "cy_o", "cy_k", " ", "cy_l", "cy_i", "cy_d">>
\* show and add a note
T_show_and_add_a_note == <<"s", "h", "o", "w", " ", "a", "n", "d", " ", "a", "d", "d", " ", "a", " ", "n", "o", "t", "e">>
\* show dashboard sale
T_show_dashboard_sale == <<"s", "h", "o", "w", " ", "d", "a", "s", "h", "b", "o", "a", "r", "d", " ", "s", "a", "l", "e">>
\* [z][n][a][j][d][y] [h][a][r][ya][ch][i] [l][i][d][y]
T_znajdy_hariachi_lidy == <<"cy_z", "cy_n", "cy_a", "cy_j", "cy_d", "cy_y", " ", "cy_h", "cy_a", "cy_r", "cy_ya", "cy_ch", "cy_i", " ", "cy_l", "cy_i", "cy_d", "cy_y">>

\* Texts given to detect directly (SpecDetect): every tier, texts in which
\* a phrase of one intent meets keyword and verb of another, and texts in
\* which keywords and verbs of several intents meet.
DetectTexts ==
  {T_yes, T_no, T_vidmina, T_okej, T_hello, T_call_him,
   T_show_leads, T_pokazhy_lidy, T_stats, T_new_lead, T_add_note,
   T_delete_lead_12, T_edit_lid_7, T_add_a_note_to_him,
   T_dodaj_notatku_do_lida, T_show_stats_for_leads, T_znajdy_hariachi_lidy,
   T_show_my_lead_notes, T_vydaly_ta_zminy_lid, T_find_best_score,
   T_stvory_spysok_lid, T_show_and_add_a_note, T_show_dashboard_sale}

\* [d][o][d][a][j] [n][o][t][a][t][k][u]
T_dodaj_notatku == <<"cy_d", "cy_o", "cy_d", "cy_a", "cy_j", " ", "cy_n", "cy_o", "cy_t", "cy_a", "cy_t", "cy_k", "cy_u">>
\* [d][o][d][a][j] [n][o][t][a][t][k][u] [d][z][v][i][n]
T_dodaj_notatku_dzvin == <<"cy_d", "cy_o", "cy_d", "cy_a", "cy_j", " ", "cy_n", "cy_o", "cy_t", "cy_a", "cy_t", "cy_k", "cy_u", " ", "cy_d", "cy_z", "cy_v", "cy_i", "cy_n">>
\* [d][o][d][a][j] [n][o][t][a][t][k][u] #5 [d][z][v][i][n]
T_dodaj_notatku_5_dzvin == <<"cy_d", "cy_o", "cy_d", "cy_a", "cy_j", " ", "cy_n", "cy_o", "cy_t", "cy_a", "cy_t", "cy_k", "cy_u", " ", "#", "5", " ", "cy_d", "cy_z", "cy_v", "cy_i", "cy_n">>
\* [d][o][d][a][j] [n][o][t][a][t][k][u] [j][o][m][u]
T_dodaj_notatku_jomu == <<"cy_d", "cy_o", "cy_d", "cy_a", "cy_j", " ", "cy_n", "cy_o", "cy_t", "cy_a", "cy_t", "cy_k", "cy_u", " ", "cy_j", "cy_o", "cy_m", "cy_u">>
\* analyze lead
T_analyze_lead == <<"a", "n", "a", "l", "y", "z", "e", " ", "l", "e", "a", "d">>
\* analyze lead #5
T_analyze_lead_5 == <<"a", "n", "a", "l", "y", "z", "e", " ", "l", "e", "a", "d", " ", "#", "5">>
\* analyze him
T_analyze_him == <<"a", "n", "a", "l", "y", "z", "e", " ", "h", "i", "m">>

\* Turns that add a note or ask for an analysis, with and without a lead
\* id, a back-reference and a note content (SpecNote).
NoteTexts ==
  {T_dodaj_notatku, T_dodaj_notatku_dzvin, T_dodaj_notatku_5_dzvin,
   T_dodaj_notatku_jomu, T_add_note, T_analyze_lead, T_analyze_lead_5,
   T_analyze_him}

\* delete lead
T_delete_lead == <<"d", "e", "l", "e", "t", "e", " ", "l", "e", "a", "d">>
\* [r][e][d][a][h][u][j] [l][i][d]
T_redahuj_lid == <<"cy_r", "cy_e", "cy_d", "cy_a", "cy_h", "cy_u", "cy_j", " ", "cy_l", "cy_i", "cy_d">>
\* [r][e][d][a][h][u][j] [l][i][d] #7
T_redahuj_lid_7 == <<"cy_r", "cy_e", "cy_d", "cy_a", "cy_h", "cy_u", "cy_j", " ", "cy_l", "cy_i", "cy_d", " ", "#", "7">>
\* [d][o][d][a][j] [l][i][d][a] [I][v][a][n] +380501234567
T_dodaj_lida_ivan == <<"cy_d", "cy_o", "cy_d", "cy_a", "cy_j", " ", "cy_l", "cy_i", "cy_d", "cy_a", " ", "CY_I", "cy_v", "cy_a", "cy_n", " ", "+", "3", "8", "0", "5", "0", "1", "2", "3", "4", "5", "6", "7">>
\* new lead a@b.co scanner
T_new_lead_email_scanner == <<"n", "e", "w", " ", "l", "e", "a", "d", " ", "a", "@", "b", ".", "c", "o", " ", "s", "c", "a", "n", "n", "e", "r">>

\* Commands that ask for a confirmation, with their fields present and
\* missing, and the two replies (SpecConfirm).
ConfirmTexts ==
  {T_delete_lead_12, T_delete_lead, T_redahuj_lid, T_redahuj_lid_7,
   T_new_lead, T_dodaj_lida_ivan, T_new_lead_email_scanner, T_yes, T_no}

\* delete lead #0
T_delete_lead_0 == <<"d", "e", "l", "e", "t", "e", " ", "l", "e", "a", "d", " ", "#", "0">>
\* call him lead #7
T_call_him_lead_7 == <<"c", "a", "l", "l", " ", "h", "i", "m", " ", "l", "e", "a", "d", " ", "#", "7">>
\* Yes #12
T_yes_12 == <<"Y", "e", "s", " ", "#", "1", "2">>

\* Texts that name a lead id: 0, another id, an id next to a back-reference
\* and an id in a reply (SpecId).
IdTexts == {T_delete_lead_0, T_delete_lead_12, T_call_him_lead_7, T_yes_12}

\* The two commands of a long session (SpecSession).
SessionTexts == {T_show_leads, T_stats}

AllTexts ==
  Texts \cup VoiceTexts \cup SessionTexts \cup RefTexts \cup DetectTexts
    \cup NoteTexts \cup ConfirmTexts \cup IdTexts

\* Arguments of the direct calls of update_context_lead and set_confirmation.
LeadIds == {42}

LeadNames == {Some(<<"N", "i", "k">>)}

\* What the two requests of _ai_fallback can meet: a 200 answer with the
\* body the code expects ("ok"), a timeout, another status code, an
\* exception of the client (no connection), a body that is not what the
\* code indexes into.
HttpOutcomes == {"ok", "timeout", "status", "exception", "malformed"}

\* The outcome of the lead-summary request and of the completion request.
AiOutcomes == [fetch : HttpOutcomes, completion : HttpOutcomes]

\* No request is made.
NoAi == [fetch |-> "none", completion |-> "none"]


(***************************************************************************)
(* The text-only functions above, tabulated over the input texts.          *)
(***************************************************************************)

CascadeOf == [text \in AllTexts |-> Cascade(text)]

ReplyOf ==
  [text \in AllTexts |->
     [yes |-> ContainsAny(Lower(text), ReplyYesWords),
      no |-> ContainsAny(Lower(text), ReplyNoWords),
      pronoun |-> ContainsAny(Lower(text), pronoun_patterns)]]

\* The lead id that _extract_entities finds in the text itself.
LeadIdOf == [text \in AllTexts |-> extract_entities(text).lead_id]

\* detect trusting itself more when the context supplied the lead id.
detect_surer_with_context(text, current_context) ==
  LET c == CascadeOf[text] IN
  MakeAction(c.intent,
             IF c.tier \in {1, 2}
               THEN FillLeadId(c.entities, current_context)
               ELSE c.entities,
             IF /\ c.tier \in {1, 2}
                /\ FillLeadId(c.entities, current_context) # c.entities
               THEN 95
               ELSE c.confidence,
             text)

detect(text, current_context) ==
  LET c == CascadeOf[text] IN
  MakeAction(c.intent,
             IF c.tier \in {1, 2}
               THEN FillLeadId(c.entities, current_context)
               ELSE c.entities,
             c.confidence, text)

(***************************************************************************)
(* State                                                                   *)
(***************************************************************************)

VARIABLES
  user_contexts,   \* VoiceAIManager._user_contexts: user id -> UserContext
  now,             \* datetime.now(), in clock ticks of one hour
  openai_api_key,  \* is OPENAI_API_KEY configured (read once, in __init__)
  huggingface_token,         \* is HUGGINGFACE_TOKEN configured (likewise)
  FASTER_WHISPER_AVAILABLE,  \* did the import of faster_whisper succeed
  turns,           \* the number of calls made on the manager so far
  last,            \* the most recent call: who made it, its input, the branch
                   \* of process_text it took, the _execute_action call it
                   \* made (if any), the dict it returned, the HTTP
                   \* requests its AI fallback attempted and the
                   \* transcription providers it invoked
  inflight,        \* the process_voice calls suspended in "await
                   \* self._transcribe(...)", in the order they were made
  probe            \* the most recent call of a function that touches no
                   \* store (IntentDetector.detect): arguments and result

vars ==
  <<user_contexts, now, openai_api_key, huggingface_token,
    FASTER_WHISPER_AVAILABLE, turns, last, inflight, probe>>

\* VOICE_AI_CONTEXT_TTL_MINUTES, default "120": two clock ticks.
ContextTtl == 2

\* UserContext.add_turn keeps the last 10 turns.
HistoryCap == 10

\* A context that starts in the reserved tag.
NewContext_editing(user_id, t) ==
  [user_id |-> user_id,
   last_lead_id |-> None,
   last_lead_name |-> None,
   last_action |-> None,
   confirmation_pending |-> None,
   conversation_history |-> <<>>,
   state |-> "editing",
   last_seen_at |-> t]

\* UserContext(user_id=user_id), created at time t.
NewContext(user_id, t) ==
  [user_id |-> user_id,
   last_lead_id |-> None,
   last_lead_name |-> None,
   last_action |-> None,
   confirmation_pending |-> None,
   conversation_history |-> <<>>,
   state |-> "idle",
   last_seen_at |-> t]

\* add_turn cutting the list from the wrong end: [:10] for [-10:].
add_turn_keeps_first(ctx, turn, t) ==
  LET appended == Append(ctx.conversation_history, turn) IN
  [ctx EXCEPT
     !.conversation_history =
        IF Len(appended) > HistoryCap
          THEN SubSeq(appended, 1, HistoryCap)
          ELSE appended,
     !.last_seen_at = t]

\* UserContext.add_turn
add_turn(ctx, turn, t) ==
  LET appended == Append(ctx.conversation_history, turn) IN
  [ctx EXCEPT
     !.conversation_history =
        IF Len(appended) > HistoryCap
          THEN SubSeq(appended, Len(appended) - HistoryCap + 1, Len(appended))
          ELSE appended,
     !.last_seen_at = t]

(***************************************************************************)
(* Context management.  Every operator takes the store and the time of the *)
(* call and yields the store after the call.                               *)
(***************************************************************************)

\* A sweep that also drops a context whose age is exactly the TTL.
IsStale_at_ttl(ctx, t) == ctx.last_seen_at <= t - ContextTtl

\* ctx.last_seen_at < cutoff
IsStale(ctx, t) == ctx.last_seen_at < t - ContextTtl

\* A sweep that drops nothing.
cleanup_contexts_drops_nothing(store, t) == store

cleanup_contexts(store, t) ==
  [uid \in {v \in DOMAIN store : ~IsStale(store[v], t)} |-> store[uid]]

\* get_context without the sweep of line 390.
get_context_without_sweep(store, user_id, t) ==
  [(IF user_id \in DOMAIN store
      THEN store
      ELSE (user_id :> NewContext(user_id, t)) @@ store)
   EXCEPT ![user_id].last_seen_at = t]

\* get_context stamping every context of the store, not only the caller's.
get_context_refreshes_all(store, user_id, t) ==
  LET swept == cleanup_contexts(store, t)
      have == IF user_id \in DOMAIN swept
                THEN swept
                ELSE (user_id :> NewContext(user_id, t)) @@ swept
  IN [uid \in DOMAIN have |-> [have[uid] EXCEPT !.last_seen_at = t]]

get_context(store, user_id, t) ==
  LET swept == cleanup_contexts(store, t)
      have == IF user_id \in DOMAIN swept
                THEN swept
                ELSE (user_id :> NewContext(user_id, t)) @@ swept
  IN [have EXCEPT ![user_id].last_seen_at = t]

\* update_context_lead writing the lead id into the pending Action as well.
update_context_lead_rewrites_pending(store, user_id, lead_id, lead_name, t) ==
  [get_context(store, user_id, t) EXCEPT
     ![user_id].last_lead_id = Some(lead_id),
     ![user_id].last_lead_name = IF TruthyStr(lead_name) THEN lead_name ELSE @,
     ![user_id].confirmation_pending =
        IF @ = None THEN @
        ELSE Some([Val(@) EXCEPT !.entities.lead_id = Some(lead_id)])]

\* lead_id is an int, lead_name an Optional[str].
update_context_lead(store, user_id, lead_id, lead_name, t) ==
  LET s == get_context(store, user_id, t) IN
  [s EXCEPT ![user_id].last_lead_id = Some(lead_id),
            ![user_id].last_lead_name = IF TruthyStr(lead_name) THEN lead_name ELSE @]

\* set_confirmation that leaves an Action already pending in its place.
set_confirmation_keeps_first(store, user_id, action, t) ==
  [get_context(store, user_id, t) EXCEPT
     ![user_id].confirmation_pending = IF @ = None THEN Some(action) ELSE @,
     ![user_id].state = "awaiting_confirmation"]

set_confirmation(store, user_id, action, t) ==
  LET s == get_context(store, user_id, t) IN
  [s EXCEPT ![user_id].confirmation_pending = Some(action),
            ![user_id].state = "awaiting_confirmation"]

\* clear_confirmation that resets the state tag and forgets line 421.
clear_confirmation_keeps_pending(store, user_id, t) ==
  [get_context(store, user_id, t) EXCEPT ![user_id].state = "idle"]

clear_confirmation(store, user_id, t) ==
  LET s == get_context(store, user_id, t) IN
  [s EXCEPT ![user_id].confirmation_pending = None,
            ![user_id].state = "idle"]

\* resolve_pronoun, on the context ctx that its get_context returned: the
\* (lead id, lead name) it resolves, both None when nothing is resolved.
ResolveIn(ctx, text) ==
  IF ReplyOf[text].pronoun /\ TruthyInt(ctx.last_lead_id)
    THEN [lead_id |-> ctx.last_lead_id, lead_name |-> ctx.last_lead_name]
    ELSE [lead_id |-> None, lead_name |-> None]

\* resolve_pronoun: the store after its get_context, and what it resolves.
ResolveAfterGet(s, text, user_id) ==
  [store |-> s,
   lead_id |-> ResolveIn(s[user_id], text).lead_id,
   lead_name |-> ResolveIn(s[user_id], text).lead_name]

resolve_pronoun(store, text, user_id, t) ==
  ResolveAfterGet(get_context(store, user_id, t), text, user_id)

(***************************************************************************)
(* The dialogue orchestrator                                               *)
(***************************************************************************)

\* A response text: the template that produced it and the values it
\* interpolates.
Msg(template, args) == [template |-> template, args |-> args]

\* A bare Intent member where a result carries one in place of an Action.
IntentOnly(intent) == [intent |-> intent]

\* A gate that forgets the destructive intents.
needs_confirmation_create_only(action) ==
  action.intent \in {"CREATE_LEAD"}

needs_confirmation(action) ==
  action.intent \in {"CREATE_LEAD", "DELETE_LEAD", "EDIT_LEAD"}

\* str(n) of a natural number.
RECURSIVE DecimalDigits(_)
DecimalDigits(n) ==
  IF n < 10 THEN <<Digits[n + 1]>>
  ELSE DecimalDigits(n \div 10) \o <<Digits[(n % 10) + 1]>>

\* What an f-string shows for an Optional[int]: str(None) is "None".
Format(o) ==
  IF o = None THEN <<"N", "o", "n", "e">> ELSE DecimalDigits(Val(o))

\* The dash that the prompts show for a field that is missing.
Dash == <<"em_dash">>

\* f"{value or placeholder}" for an Optional[str] and an Optional[int].
StrOr(o, placeholder) == IF TruthyStr(o) THEN Val(o) ELSE placeholder

IntOr(o, placeholder) ==
  IF TruthyInt(o) THEN DecimalDigits(Val(o)) ELSE placeholder

\* f"{entities.source or 'MANUAL'}"
SourceOr(o, placeholder) == IF o # None THEN Val(o) ELSE placeholder

build_confirmation_message(action) ==
  LET entities == action.entities
      response ==
        CASE action.intent = "CREATE_LEAD" ->
               Msg("confirm_create",
                   <<StrOr(entities.lead_name, Dash),
                     StrOr(entities.phone, Dash),
                     StrOr(entities.email, Dash),
                     SourceOr(entities.source, "MANUAL")>>)
          [] action.intent = "DELETE_LEAD" ->
               Msg("confirm_delete", <<Format(entities.lead_id)>>)
          [] action.intent = "EDIT_LEAD" ->
               Msg("confirm_edit", <<IntOr(entities.lead_id, Dash)>>)
          [] OTHER -> Msg("confirm_generic", <<>>)
  IN [success |-> TRUE,
      text |-> Some(action.original_text),
      action |-> Some(action),
      response |-> response,
      needs_confirmation |-> TRUE]

\* A response of _build_action_response; followup_hint and suggestions are
\* None and empty where the code's dict has no such key.
Resp(type, text, hint, suggestions) ==
  [type |-> type, text |-> text,
   followup_hint |-> hint, suggestions |-> suggestions]

\* _build_action_response guessing a lead when none is known.
LeadIdOrLast_guessed(action, context) ==
  IF TruthyInt(action.entities.lead_id)
    THEN action.entities.lead_id
    ELSE IF TruthyInt(context.last_lead_id) THEN context.last_lead_id
    ELSE Some(1)

\* "action.entities.lead_id or context.last_lead_id"
LeadIdOrLast(action, context) ==
  IF TruthyInt(action.entities.lead_id)
    THEN action.entities.lead_id
    ELSE context.last_lead_id

\* The branches of _build_action_response, on the context its get_context
\* returned.
ResponseFor(context, action, confirmed) ==
  CASE action.intent = "CREATE_LEAD" ->
         IF confirmed
           THEN Resp("lead_created",
                     Msg("lead_created",
                         <<StrOr(action.entities.lead_name, Dash),
                           StrOr(action.entities.phone, Dash)>>),
                     None, <<>>)
           ELSE Resp("confirmation_needed", Msg("confirm_create_short", <<>>),
                     None, <<>>)
    [] action.intent = "LIST_LEADS" ->
         Resp("leads_list", Msg("leads_list", <<>>), None,
              <<"show_notes", "find_hot", "stats">>)
    [] action.intent = "STATS" ->
         Resp("stats", Msg("stats", <<>>), None,
              <<"hot_leads", "sales", "find_qualified">>)
    [] action.intent = "ANALYZE_LEAD" ->
         IF TruthyInt(LeadIdOrLast(action, context))
           THEN Resp("analysis", Msg("analysis", <<LeadIdOrLast(action, context)>>),
                     Some("next_step"), <<>>)
           ELSE Resp("error", Msg("need_lead_id", <<>>), None, <<>>)
    [] action.intent = "SEARCH" ->
         Resp("search_results", Msg("search_results", <<>>), None, <<>>)
    [] action.intent = "SHOW_NOTES" ->
         Resp("notes_list", Msg("notes_list", <<>>), None, <<>>)
    [] action.intent = "ADD_NOTE" ->
         IF TruthyInt(LeadIdOrLast(action, context))
            /\ TruthyStr(action.entities.note_content)
           THEN Resp("note_added",
                     Msg("note_added", <<LeadIdOrLast(action, context),
                                         action.entities.note_content>>),
                     None, <<>>)
           ELSE Resp("error", Msg("need_lead_and_note", <<>>), None, <<>>)
    [] action.intent = "SALES" ->
         Resp("sales_pipeline", Msg("sales_pipeline", <<>>), None, <<>>)
    [] OTHER ->
         Resp("text", Msg("action_done", <<action.intent>>), None, <<>>)

ResponseAfterGet(s, action, user_id, confirmed) ==
  [store |-> s, response |-> ResponseFor(s[user_id], action, confirmed)]

\* _build_action_response: the store after its get_context and the response.
build_action_response(store, action, user_id, confirmed, t) ==
  ResponseAfterGet(get_context(store, user_id, t), action, user_id, confirmed)

\* _fetch_leads: the text handed to the completion request.  Every outcome
\* but a 200 answer with a list of leads ends in "data unavailable" (the
\* bare except at lines 844-845, the fall-through of line 838).
fetch_leads(fetch) ==
  IF fetch = "ok" THEN Msg("leads_summary", <<>>)
                  ELSE Msg("leads_unavailable", <<>>)

\* _ai_fallback fetching the leads before it looks for the key.
fallback_requests_before_key_check(text, key, ai) ==
  <<[url |-> "http://localhost:8000/api/v1/leads", prompt |-> None,
     met |-> ai.fetch]>>

\* The HTTP requests _ai_fallback attempts, in order: none without a key
\* (the return of lines 775-783 comes first); with one, the GET of
\* _fetch_leads and the POST of the completion with the leads in its
\* prompt, each with what it met.
fallback_requests(text, key, ai) ==
  IF ~key
    THEN <<>>
    ELSE <<[url |-> "http://localhost:8000/api/v1/leads",
            prompt |-> None,
            met |-> ai.fetch],
           [url |-> "https://api.openai.com/v1/chat/completions",
            prompt |-> Some([text |-> text,
                             leads_data |-> fetch_leads(ai.fetch)]),
            met |-> ai.completion]>>

\* _ai_fallback taking any body of a 200 answer for the completion.
ai_fallback_trusts_body(text, key, ai) ==
  IF ~key
    THEN [success |-> TRUE,
          text |-> Some(text),
          action |-> Some(IntentOnly("UNKNOWN")),
          response |-> Msg("clarify", <<>>),
          followup_hint |-> Some("examples"),
          needs_confirmation |-> FALSE]
    ELSE [success |-> TRUE,
          text |-> Some(text),
          action |-> Some(IntentOnly("UNKNOWN")),
          response |-> IF ai.completion \in {"ok", "malformed"}
                         THEN Msg("ai_response", <<>>)
                         ELSE Msg("could_not_process", <<>>),
          needs_confirmation |-> FALSE]

\* _ai_fallback.  ai is what its two requests meet when a key is
\* configured; every outcome of the completion but "ok" leaves the try
\* block by line 819 (status) or by the except of line 820.
ai_fallback(text, key, ai) ==
  IF ~key
    THEN [success |-> TRUE,
          text |-> Some(text),
          action |-> Some(IntentOnly("UNKNOWN")),
          response |-> Msg("clarify", <<>>),
          followup_hint |-> Some("examples"),
          needs_confirmation |-> FALSE]
    ELSE [success |-> TRUE,
          text |-> Some(text),
          action |-> Some(IntentOnly("UNKNOWN")),
          response |-> IF ai.completion = "ok" THEN Msg("ai_response", <<>>)
                                    ELSE Msg("could_not_process", <<>>),
          needs_confirmation |-> FALSE]

\* The tail of _execute_action (lines 670-693): the last-lead update, the
\* turn appended to the history, the dict returned.
ExecuteBuilt(built, action, user_id, t) ==
  [store |->
     [(IF TruthyInt(action.entities.lead_id)
         THEN update_context_lead(built.store, user_id,
                                  Val(action.entities.lead_id), None, t)
         ELSE built.store)
      EXCEPT ![user_id] =
        add_turn(@, [timestamp |-> t,
                     user_input |-> action.original_text,
                     action |-> action,
                     bot_response |-> built.response.text], t)],
   result |-> [success |-> TRUE,
               text |-> Some(action.original_text),
               action |-> Some(action),
               response |-> built.response.text,
               response_type |-> built.response.type,
               keyboard |-> None,
               followup_hint |-> built.response.followup_hint,
               suggestions |-> built.response.suggestions,
               needs_confirmation |-> FALSE],
   requests |-> <<>>]

\* _execute_action from line 663 on, s being the store after lines 657-661.
ExecuteFrom(s, action, user_id, confirmed, t, key, ai) ==
  IF action.intent = "UNKNOWN"
    THEN [store |-> s,
          result |-> ai_fallback(action.original_text, key, ai),
          requests |-> fallback_requests(action.original_text, key, ai)]
    ELSE ExecuteBuilt(build_action_response(s, action, user_id, confirmed, t),
                      action, user_id, t)

\* _execute_action without lines 660-661.
execute_action_keeps_pending(store, action, user_id, confirmed, t, key, ai) ==
  ExecuteFrom(get_context(store, user_id, t),
              action, user_id, confirmed, t, key, ai)

\* _execute_action clearing the confirmation whatever "confirmed" is.
execute_action_always_clears(store, action, user_id, confirmed, t, key, ai) ==
  ExecuteFrom(clear_confirmation(get_context(store, user_id, t), user_id, t),
              action, user_id, confirmed, t, key, ai)

\* _execute_action: the store after the call and the dict returned.
execute_action(store, action, user_id, confirmed, t, key, ai) ==
  ExecuteFrom(IF confirmed
                THEN clear_confirmation(get_context(store, user_id, t), user_id, t)
                ELSE get_context(store, user_id, t),
              action, user_id, confirmed, t, key, ai)

\* The orchestrator's own reading of a reply while a confirmation is pending.
ReplyIsYes(text) == ReplyOf[text].yes

ReplyIsNo(text) == ~ReplyIsYes(text) /\ ReplyOf[text].no

\* "context.state == 'awaiting_confirmation' and context.confirmation_pending"
HasPending(context) ==
  context.state = "awaiting_confirmation" /\ context.confirmation_pending # None

\* What a turn yields: the store after it, the dict returned, the branch of
\* process_text taken ("confirmed", "cancelled", "prompt" or "direct") and
\* the arguments of the _execute_action call made, if any; and the HTTP
\* requests attempted on the way (only _execute_action makes any).
Turn(store, result, path, executed) ==
  [store |-> store, result |-> result, path |-> path, executed |-> executed,
   requests |-> <<>>]

Executed(done, path, action, confirmed) ==
  [Turn(done.store, done.result, path,
        Some([action |-> action, confirmed |-> confirmed]))
     EXCEPT !.requests = done.requests]

\* process_text without lines 592-593.
AdoptResolved_dropped(action, resolved_lead_id) == action

\* "if resolved_lead_id and not action.entities.lead_id: ..." (592-593)
AdoptResolved(action, resolved_lead_id) ==
  IF TruthyInt(resolved_lead_id) /\ ~TruthyInt(action.entities.lead_id)
    THEN [action EXCEPT !.entities.lead_id = resolved_lead_id]
    ELSE action

\* Lines 599-606: the confirmation gate, s being the store after line 597.
Gate(s, action, user_id, t, key, ai) ==
  IF needs_confirmation(action)
    THEN Turn(set_confirmation(s, user_id, action, t),
              build_confirmation_message(action), "prompt", None)
    ELSE Executed(execute_action(s, action, user_id, FALSE, t, key, ai),
                  "direct", action, FALSE)

\* Lines 595-606, action being the Action of lines 590-593.
Dispatch(s, action, user_id, t, key, ai) ==
  Gate(IF TruthyInt(action.entities.lead_id)
         THEN update_context_lead(s, user_id, Val(action.entities.lead_id), None, t)
         ELSE s,
       action, user_id, t, key, ai)

\* Lines 571-606, resolved being what resolve_pronoun returned (and the
\* store after it).
ProcessResolved(resolved, text, user_id, t, key, ai) ==
  IF HasPending(resolved.store[user_id]) /\ ReplyIsYes(text)
    THEN Executed(execute_action(resolved.store,
                                 Val(resolved.store[user_id].confirmation_pending),
                                 user_id, TRUE, t, key, ai),
                  "confirmed",
                  Val(resolved.store[user_id].confirmation_pending), TRUE)
  ELSE IF HasPending(resolved.store[user_id]) /\ ReplyIsNo(text)
    THEN Turn(clear_confirmation(resolved.store, user_id, t),
              [success |-> TRUE,
               text |-> Some(text),
               action |-> Some(IntentOnly("CANCEL")),
               response |-> Msg("cancelled", <<>>),
               needs_confirmation |-> FALSE],
              "cancelled", None)
  ELSE Dispatch(resolved.store,
                AdoptResolved(detect(text, Some(resolved.store[user_id])),
                              resolved.lead_id),
                user_id, t, key, ai)

process_text(store, text, user_id, t, key, ai) ==
  ProcessResolved(resolve_pronoun(get_context(store, user_id, t), text, user_id, t),
                  text, user_id, t, key, ai)

\* Arguments of the direct calls of set_confirmation.
ApiActions == {detect(T_new_lead, None)}

(***************************************************************************)
(* The calls                                                               *)
(***************************************************************************)

\* stale_ids of the sweep a call starts with, with the contexts it drops.
Swept(store, t) ==
  [uid \in {v \in DOMAIN store : v \notin DOMAIN cleanup_contexts(store, t)}
     |-> store[uid]]

Call(op, user, text, path, executed, result, swept) ==
  [op |-> op, user |-> user, text |-> text, path |-> path,
   executed |-> executed, result |-> result, swept |-> swept,
   requests |-> <<>>, transcription |-> <<>>]

\* A manager just constructed: no context, no call made.
Constructed ==
  /\ user_contexts = <<>>
  /\ now = 0
  /\ turns = 0
  /\ last = Call("none", 0, None, "none", None, None, <<>>)
  /\ inflight = <<>>
  /\ probe = None

\* An installation with faster-whisper and without a HuggingFace token,
\* with or without an OpenAI key.
Init ==
  /\ Constructed
  /\ openai_api_key \in BOOLEAN
  /\ huggingface_token = FALSE
  /\ FASTER_WHISPER_AVAILABLE = TRUE

\* The clock advances between calls.
Tick ==
  /\ now < MaxTime
  /\ now' = now + 1
  /\ UNCHANGED <<user_contexts, openai_api_key, huggingface_token,
               FASTER_WHISPER_AVAILABLE, turns, last, inflight, probe>>

GetContext(u) ==
  /\ turns < MaxTurns
  /\ user_contexts' = get_context(user_contexts, u, now)
  /\ turns' = turns + 1
  /\ last' = Call("get_context", u, None, "none", None, None,
                  Swept(user_contexts, now))
  /\ UNCHANGED <<now, openai_api_key, huggingface_token,
               FASTER_WHISPER_AVAILABLE, inflight, probe>>

UpdateContextLead(u, lead_id, lead_name) ==
  /\ turns < MaxTurns
  /\ user_contexts' = update_context_lead(user_contexts, u, lead_id, lead_name, now)
  /\ turns' = turns + 1
  /\ last' = Call("update_context_lead", u, None, "none", None, None,
                  Swept(user_contexts, now))
  /\ UNCHANGED <<now, openai_api_key, huggingface_token,
               FASTER_WHISPER_AVAILABLE, inflight, probe>>

SetConfirmation(u, action) ==
  /\ turns < MaxTurns
  /\ user_contexts' = set_confirmation(user_contexts, u, action, now)
  /\ turns' = turns + 1
  /\ last' = Call("set_confirmation", u, None, "none", None, None,
                  Swept(user_contexts, now))
  /\ UNCHANGED <<now, openai_api_key, huggingface_token,
               FASTER_WHISPER_AVAILABLE, inflight, probe>>

ClearConfirmation(u) ==
  /\ turns < MaxTurns
  /\ user_contexts' = clear_confirmation(user_contexts, u, now)
  /\ turns' = turns + 1
  /\ last' = Call("clear_confirmation", u, None, "none", None, None,
                  Swept(user_contexts, now))
  /\ UNCHANGED <<now, openai_api_key, huggingface_token,
               FASTER_WHISPER_AVAILABLE, inflight, probe>>

\* The completion request of _ai_fallback is made only with a key.
AiChoices == IF openai_api_key THEN AiOutcomes ELSE {NoAi}

\* The effect on the variables of a turn r == process_text(text, u), made
\* through op.
ApplyTurn(op, u, text, r, swept) ==
  /\ user_contexts' = r.store
  /\ last' = [Call(op, u, Some(text), r.path, r.executed, Some(r.result), swept)
                 EXCEPT !.requests = r.requests]

\* The same for a voice turn, with the providers its transcription invoked.
ApplyVoiceTurn(u, text, invoked, r, swept) ==
  /\ user_contexts' = r.store
  /\ last' = [Call("process_voice", u, Some(text), r.path, r.executed,
                    Some(r.result), swept)
                 EXCEPT !.requests = r.requests, !.transcription = invoked]

RunTurn(op, u, text, ai) ==
  ApplyTurn(op, u, text,
            process_text(user_contexts, text, u, now, openai_api_key, ai),
            Swept(user_contexts, now))

ProcessText(u, text) ==
  /\ turns < MaxTurns
  /\ \E ai \in AiChoices : RunTurn("process_text", u, text, ai)
  /\ turns' = turns + 1
  /\ UNCHANGED <<now, openai_api_key, huggingface_token,
               FASTER_WHISPER_AVAILABLE, inflight, probe>>

\* process_voice, from the moment _transcribe has returned transcript: no
\* transcript ends the call before the store is touched.
ProcessVoice(u, transcript) ==
  /\ turns < MaxTurns
  /\ IF ~TruthyStr(transcript)
       THEN /\ user_contexts' = user_contexts
            /\ last' = Call("process_voice", u, None, "no_transcript", None,
                            Some([success |-> FALSE,
                                  text |-> None,
                                  action |-> None,
                                  response |-> Msg("voice_not_recognised", <<>>)]),
                            <<>>)
       ELSE \E ai \in AiChoices : RunTurn("process_voice", u, Val(transcript), ai)
  /\ turns' = turns + 1
  /\ UNCHANGED <<now, openai_api_key, huggingface_token,
               FASTER_WHISPER_AVAILABLE, inflight, probe>>

Next ==
  \/ \E u \in Users : GetContext(u)
  \/ \E u \in Users, i \in LeadIds, n \in LeadNames : UpdateContextLead(u, i, n)
  \/ \E u \in Users, a \in ApiActions : SetConfirmation(u, a)
  \/ \E u \in Users : ClearConfirmation(u)
  \/ \E u \in Users, text \in Texts : ProcessText(u, text)
  \/ \E u \in Users, tr \in Transcripts : ProcessVoice(u, tr)

Spec == Init /\ [][Next]_vars

\* Conversations with pauses: the clock advances between the calls.
NextTtl ==
  \/ Tick
  \/ \E u \in Users : GetContext(u)
  \/ \E u \in Users, text \in TtlTexts : ProcessText(u, text)

\* No AI backend is involved in them: no key is configured.
InitTtl == Init /\ openai_api_key = FALSE

SpecTtl == InitTtl /\ [][NextTtl]_vars

\* Conversations about "him" and "that lead": the last lead is set by a
\* caller or by an earlier turn.
NextRef ==
  \/ \E u \in Users, i \in LeadIds, n \in LeadNames : UpdateContextLead(u, i, n)
  \/ \E u \in Users, text \in RefTexts : ProcessText(u, text)

SpecRef == Init /\ [][NextRef]_vars

\* Notes and analyses, for a lead named in the text, for the last lead and
\* for none.
NextNote ==
  \/ \E u \in Users, i \in LeadIds, n \in LeadNames : UpdateContextLead(u, i, n)
  \/ \E u \in Users, text \in NoteTexts : ProcessText(u, text)

SpecNote == InitTtl /\ [][NextNote]_vars

\* Turns that end in the AI fallback and turns that do not, with and
\* without a key, while confirmations come and go.
AiTexts == {T_hello, T_call_him, T_delete_lead_12, T_yes, T_show_leads}

NextAi ==
  \/ \E u \in Users, i \in LeadIds, n \in LeadNames : UpdateContextLead(u, i, n)
  \/ \E u \in Users, text \in AiTexts : ProcessText(u, text)

SpecAi == Init /\ [][NextAi]_vars

(***************************************************************************)
(* Transcription.  _transcribe asks the providers in the order local,      *)
(* HuggingFace, OpenAI, each only if it is configured, and returns the     *)
(* first result that is truthy.  A provider returns None when it fails     *)
(* (every exception and every status but 200 end in "return None"), the    *)
(* empty string when it heard nothing, or a text.                          *)
(***************************************************************************)

\* _transcribe asking the remote providers before the local one.
Providers_remote_first == <<"huggingface", "openai", "local">>

Providers == <<"local", "huggingface", "openai">>

\* "if FASTER_WHISPER_AVAILABLE", "if self.huggingface_token", "if
\* self.openai_api_key" (lines 465, 472, 479).
Configured(whisper, token, key) ==
  [local |-> whisper, huggingface |-> token, openai |-> key]

RECURSIVE TranscribeFrom(_, _, _)

\* The providers _transcribe invokes and the result of each: the
\* configured ones, in order, up to and including the first that returns a
\* truthy result.  heard[p] is what provider p would return.
TranscribeFrom(k, configured, heard) ==
  IF k > Len(Providers) THEN <<>>
  ELSE IF ~configured[Providers[k]] THEN TranscribeFrom(k + 1, configured, heard)
  ELSE IF TruthyStr(heard[Providers[k]])
    THEN <<[provider |-> Providers[k], result |-> heard[Providers[k]]]>>
  ELSE <<[provider |-> Providers[k], result |-> heard[Providers[k]]]>>
         \o TranscribeFrom(k + 1, configured, heard)

\* What _transcribe returns after these invocations: the truthy result of
\* the last one, else None (line 486).
Transcript(invoked) ==
  IF invoked # <<>> /\ TruthyStr(invoked[Len(invoked)].result)
    THEN invoked[Len(invoked)].result
    ELSE None

transcribe(configured, heard) == TranscribeFrom(1, configured, heard)

\* What a provider can return for a recording.
ProviderResults == {None, Some(<<>>), Some(T_yes), Some(T_show_leads)}

Recordings ==
  [local : ProviderResults, huggingface : ProviderResults,
   openai : ProviderResults]

\* process_voice as a whole: the transcription, then the turn.
ProcessVoiceHeard(u, invoked, ai) ==
  /\ turns < MaxTurns
  /\ IF ~TruthyStr(Transcript(invoked))
       THEN /\ user_contexts' = user_contexts
            /\ last' = [Call("process_voice", u, None, "no_transcript", None,
                             Some([success |-> FALSE,
                                   text |-> None,
                                   action |-> None,
                                   response |-> Msg("voice_not_recognised", <<>>)]),
                             <<>>)
                          EXCEPT !.transcription = invoked]
       ELSE ApplyVoiceTurn(u, Val(Transcript(invoked)), invoked,
                           process_text(user_contexts, Val(Transcript(invoked)),
                                        u, now, openai_api_key, ai),
                           Swept(user_contexts, now))
  /\ turns' = turns + 1
  /\ UNCHANGED <<now, openai_api_key, huggingface_token,
                 FASTER_WHISPER_AVAILABLE, inflight, probe>>

\* What the requests of the AI fallback meet during the voice turns: all
\* goes well or nothing does (no recording here is an UNKNOWN command).
VoiceAiChoices ==
  IF openai_api_key
    THEN {[fetch |-> "ok", completion |-> "ok"],
          [fetch |-> "timeout", completion |-> "status"]}
    ELSE {NoAi}

\* Voice messages on installations with any of the three providers.
NextVoice ==
  \E u \in Users, heard \in Recordings, ai \in VoiceAiChoices :
    ProcessVoiceHeard(u,
                      transcribe(Configured(FASTER_WHISPER_AVAILABLE,
                                            huggingface_token, openai_api_key),
                                 heard),
                      ai)

InitVoice ==
  /\ Constructed
  /\ openai_api_key \in BOOLEAN
  /\ huggingface_token \in BOOLEAN
  /\ FASTER_WHISPER_AVAILABLE \in BOOLEAN

SpecVoice == InitVoice /\ [][NextVoice]_vars

(***************************************************************************)
(* assess_transcription_quality.  Scores are in hundredths.                *)
(***************************************************************************)

\* len(re.findall(r"\w+", raw)): the maximal runs of word characters.
WordCount(raw) ==
  Cardinality({i \in 1..Len(raw) :
                 IsWordChar(raw[i]) /\ (i = 1 \/ ~IsWordChar(raw[i - 1]))})

\* The characters the class of line 359 does not list.
IsWeird(c) ==
  /\ ~IsWordChar(c)
  /\ ~IsSpace(c)
  /\ c \notin {"#", "+", "-", ".", "@", ",", ":", ";", "!", "?"}

WeirdCount(raw) == Cardinality({i \in 1..Len(raw) : IsWeird(raw[i])})

\* re.search(r"(.)\1{4,}", raw): a character five times in a row.
HasRepeat(raw) ==
  \E i \in 1..(Len(raw) - 4) : \A k \in 1..4 : raw[i + k] = raw[i]

\* The checks of lines 353-367 that trigger, in the order of the code, each
\* with its penalty and its hint.
TriggeredChecks(raw) ==
  (IF Len(raw) < 6
     THEN <<[check |-> "short", penalty |-> 40, hint |-> "add_context"]>>
     ELSE <<>>)
  \o (IF WordCount(raw) < 2
        THEN <<[check |-> "few_words", penalty |-> 25, hint |-> "full_sentence"]>>
        ELSE <<>>)
  \o (IF 5 * WeirdCount(raw) > Len(raw)
        THEN <<[check |-> "noise", penalty |-> 20, hint |-> "check_microphone"]>>
        ELSE <<>>)
  \o (IF HasRepeat(raw)
        THEN <<[check |-> "repeat", penalty |-> 15, hint |-> "repeat_command"]>>
        ELSE <<>>)

RECURSIVE SumPenalties(_)
SumPenalties(checks) ==
  IF checks = <<>> THEN 0 ELSE Head(checks).penalty + SumPenalties(Tail(checks))

\* The labels with HIGH only above 75.
Assessment_high_above(score, hints) ==
  [score |-> Max(0, Min(score, 100)),
   label |-> IF Max(0, Min(score, 100)) > 75 THEN "HIGH"
             ELSE IF Max(0, Min(score, 100)) >= 50 THEN "MEDIUM"
             ELSE "LOW",
   needs_clarification |-> Max(0, Min(score, 100)) < 50,
   hints |-> SubSeq(hints, 1, Min(3, Len(hints)))]

\* Lines 369-382, score being what the penalties left of 100.
Assessment(score, hints) ==
  [score |-> Max(0, Min(score, 100)),
   label |-> IF Max(0, Min(score, 100)) >= 75 THEN "HIGH"
             ELSE IF Max(0, Min(score, 100)) >= 50 THEN "MEDIUM"
             ELSE "LOW",
   needs_clarification |-> Max(0, Min(score, 100)) < 50,
   hints |-> SubSeq(hints, 1, Min(3, Len(hints)))]

\* The assessor returning every hint.
AssessRaw_all_hints(raw) ==
  IF raw = <<>>
    THEN [score |-> 0,
          label |-> "LOW",
          needs_clarification |-> TRUE,
          hints |-> <<"speak_clearly", "quiet_place">>]
    ELSE [Assessment(100 - SumPenalties(TriggeredChecks(raw)), <<>>)
            EXCEPT !.hints = [i \in 1..Len(TriggeredChecks(raw)) |->
                                TriggeredChecks(raw)[i].hint]]

AssessRaw(raw) ==
  IF raw = <<>>
    THEN [score |-> 0,
          label |-> "LOW",
          needs_clarification |-> TRUE,
          hints |-> <<"speak_clearly", "quiet_place">>]
    ELSE Assessment(100 - SumPenalties(TriggeredChecks(raw)),
                    [i \in 1..Len(TriggeredChecks(raw)) |->
                       TriggeredChecks(raw)[i].hint])

assess_transcription_quality(text) == AssessRaw(Strip(text))

\* The characters of the texts assessed: two letters, the space and a
\* character of noise.
QualityChars == {"a", "b", " ", "$"}

QualityTexts ==
  UNION {[1..n -> QualityChars] : n \in 0..MaxQualityLen}

\* A call of assess_transcription_quality on the text waiting in probe.
AssessTranscriptionQuality ==
  /\ probe # None
  /\ Val(probe).op = "text"
  /\ probe' = Some([op |-> "assess_transcription_quality",
                    text |-> Val(probe).text,
                    quality |-> assess_transcription_quality(Val(probe).text)])
  /\ UNCHANGED <<user_contexts, now, openai_api_key, huggingface_token,
                 FASTER_WHISPER_AVAILABLE, turns, last, inflight>>

NextQuality == AssessTranscriptionQuality

\* A manager and a transcript to assess.
InitQuality ==
  /\ user_contexts = <<>>
  /\ now = 0
  /\ turns = 0
  /\ last = Call("none", 0, None, "none", None, None, <<>>)
  /\ inflight = <<>>
  /\ openai_api_key = FALSE
  /\ huggingface_token = FALSE
  /\ FASTER_WHISPER_AVAILABLE = TRUE
  /\ probe \in {Some([op |-> "text", text |-> text]) : text \in QualityTexts}

SpecQuality == InitQuality /\ [][NextQuality]_vars

\* The contexts handed to detect: none, a new one, ones that remember a
\* lead, one with a pending delete.
DetectContexts ==
  {None,
   Some(NewContext(1, 0)),
   Some([NewContext(1, 0) EXCEPT !.last_lead_id = Some(42),
                                 !.last_lead_name = Some(<<"N", "i", "k">>)]),
   Some([NewContext(2, 0) EXCEPT !.last_lead_id = Some(7)]),
   Some([NewContext(1, 0) EXCEPT
           !.last_lead_id = Some(12),
           !.confirmation_pending = Some(detect(T_delete_lead_12, None)),
           !.state = "awaiting_confirmation"]),
   Some([NewContext(2, 0) EXCEPT
           !.conversation_history =
              <<[timestamp |-> 0,
                 user_input |-> T_show_leads,
                 action |-> detect(T_show_leads, None),
                 bot_response |-> Msg("leads_list", <<>>)]>>])}

\* A call of IntentDetector.detect: it returns the Action and assigns to no
\* attribute of current_context (lines 181-182 and 200-201 read it).
Detect(text, current_context) ==
  /\ probe' = Some([op |-> "detect",
                    text |-> text,
                    current_context |-> current_context,
                    action |-> detect(text, current_context),
                    context_after |-> current_context])
  /\ UNCHANGED <<user_contexts, now, openai_api_key, huggingface_token,
               FASTER_WHISPER_AVAILABLE, turns, last, inflight>>

NextDetect == \E text \in DetectTexts, c \in DetectContexts : Detect(text, c)

SpecDetect == InitTtl /\ [][NextDetect]_vars

\* One user's long session of commands that execute at once: more turns
\* than the history holds.
ProcessTextInSession(u, text) ==
  /\ turns < MaxSessionTurns
  /\ \E ai \in AiChoices : RunTurn("process_text", u, text, ai)
  /\ turns' = turns + 1
  /\ UNCHANGED <<now, openai_api_key, huggingface_token,
               FASTER_WHISPER_AVAILABLE, inflight, probe>>

NextSession == \E text \in SessionTexts : ProcessTextInSession(1, text)

SpecSession == InitTtl /\ [][NextSession]_vars

(***************************************************************************)
(* Concurrent voice turns.  process_voice is a coroutine: it suspends in   *)
(* "await self._transcribe(voice_content)" before it touches the store,    *)
(* and the event loop resumes the suspended calls in the order their       *)
(* transcriptions finish.  Nothing in the manager (no lock, no queue)      *)
(* ties that order to the order of the calls.  From the return of          *)
(* _transcribe to the return of process_voice there is no further          *)
(* suspension without an OpenAI key (_ai_fallback returns before its       *)
(* request), so the rest of the call is one step.                          *)
(***************************************************************************)

\* What the recordings say.
AsyncTranscripts ==
  {None} \cup {Some(text) : text \in {T_delete_lead_12, T_yes, T_show_leads}}

\* The suspended calls s without the i-th, which has been resumed.
Resumed(s, i) == SubSeq(s, 1, i - 1) \o SubSeq(s, i + 1, Len(s))

\* process_voice(voice_content, user_id) up to its await.
SubmitVoice(u, transcript) ==
  /\ turns < MaxTurns
  /\ Len(inflight) < MaxInflight
  /\ inflight' = Append(inflight, [user |-> u, transcript |-> transcript])
  /\ turns' = turns + 1
  /\ UNCHANGED <<user_contexts, now, openai_api_key, huggingface_token,
               FASTER_WHISPER_AVAILABLE, last, probe>>

\* _transcribe returns to the i-th suspended call, which runs to its end.
Transcribed(i) ==
  /\ i \in 1..Len(inflight)
  /\ IF ~TruthyStr(inflight[i].transcript)
       THEN /\ user_contexts' = user_contexts
            /\ last' = Call("process_voice", inflight[i].user, None,
                            "no_transcript", None,
                            Some([success |-> FALSE,
                                  text |-> None,
                                  action |-> None,
                                  response |-> Msg("voice_not_recognised", <<>>)]),
                            <<>>)
       ELSE \E ai \in AiChoices :
              RunTurn("process_voice", inflight[i].user,
                      Val(inflight[i].transcript), ai)
  /\ inflight' = Resumed(inflight, i)
  /\ UNCHANGED <<now, openai_api_key, huggingface_token,
               FASTER_WHISPER_AVAILABLE, turns, probe>>

NextAsync ==
  \/ \E u \in Users, tr \in AsyncTranscripts : SubmitVoice(u, tr)
  \/ \E i \in 1..MaxInflight : Transcribed(i)

SpecAsync == InitTtl /\ [][NextAsync]_vars

(***************************************************************************)
(* Properties                                                              *)
(***************************************************************************)

Mutating == {"CREATE_LEAD", "EDIT_LEAD", "DELETE_LEAD"}

\* This step is a call on the manager.
CallStep == turns' = turns + 1

\* This step is a turn (process_text, or process_voice with a transcript).
TurnStep ==
  /\ CallStep
  /\ last'.op \in {"process_text", "process_voice"}
  /\ last'.text # None

\* The user and the text of the turn this step makes.
Who == last'.user

Said == Val(last'.text)

\* Before this step, u's context exists, survives a sweep run now and holds
\* a pending confirmation.
LivePending(u) ==
  /\ u \in DOMAIN user_contexts
  /\ ~IsStale(user_contexts[u], now)
  /\ HasPending(user_contexts[u])

PendingOf(u) == Val(user_contexts[u].confirmation_pending)

\* u's turn history before this step, as the turn finds it.
HistoryBefore(u) ==
  IF u \in DOMAIN user_contexts /\ ~IsStale(user_contexts[u], now)
    THEN user_contexts[u].conversation_history
    ELSE <<>>

\* C1: in every reachable state of the store, whatever calls were made,
\* each context has a pending confirmation if and only if its state tag is
\* awaiting_confirmation.
C1_PendingIffAwaiting ==
  \A u \in DOMAIN user_contexts :
    (user_contexts[u].confirmation_pending # None)
      <=> (user_contexts[u].state = "awaiting_confirmation")

\* A confirmation was set and cleared again, and another one is pending.
C1_Witness ==
  /\ last.op = "clear_confirmation"
  /\ last.user \in DOMAIN user_contexts
  /\ user_contexts[last.user].state = "idle"
  /\ \E u \in DOMAIN user_contexts :
       /\ u # last.user
       /\ user_contexts[u].state = "awaiting_confirmation"
       /\ user_contexts[u].confirmation_pending # None

\* C2: a create/edit/delete action is executed only in a turn whose input
\* is an affirmative reply (a yes/confirm token: what tier 3 of intent
\* detection yields CONFIRM on) and only if that very action was the user's
\* pending action when the turn began; so never in the turn that requests
\* it.
C2_MutatingOnlyOnAffirmativeReply ==
  [][(/\ TurnStep
      /\ last'.executed # None
      /\ Val(last'.executed).action.intent \in Mutating)
       => /\ Val(last'.executed).confirmed
          /\ CascadeOf[Said].intent = "CONFIRM"
          /\ LivePending(Who)
          /\ PendingOf(Who) = Val(last'.executed).action]_vars

\* The part of C2 that the code keeps: a create/edit/delete action reaches
\* _execute_action only in confirmed mode, in a turn whose text the
\* orchestrator's own word test reads as affirmative, and only if that very
\* action was the user's pending action when the turn began.
C2_MutatingOnlyWhenConfirmed ==
  [][(/\ TurnStep
      /\ last'.executed # None
      /\ Val(last'.executed).action.intent \in Mutating)
       => /\ Val(last'.executed).confirmed
          /\ last'.path = "confirmed"
          /\ ReplyIsYes(Said)
          /\ LivePending(Who)
          /\ PendingOf(Who) = Val(last'.executed).action]_vars

\* A pending delete was executed by an affirmative reply.
C2_Witness ==
  /\ last.path = "confirmed"
  /\ last.executed # None
  /\ Val(last.executed).action.intent = "DELETE_LEAD"
  /\ Val(last.executed).confirmed
  /\ Val(last.result).response_type = "text"

\* C3: a turn that reaches intent detection and detects CREATE_LEAD,
\* EDIT_LEAD or DELETE_LEAD ends with the returned Action pending, the state
\* awaiting_confirmation, needs_confirmation = true in the result, nothing
\* executed and the turn history as it was.
C3_MutatingIntentIsGated ==
  [][(/\ TurnStep
      /\ last'.path \in {"prompt", "direct"}
      /\ CascadeOf[Said].intent \in Mutating)
       => /\ last'.path = "prompt"
          /\ last'.executed = None
          /\ Val(last'.result).needs_confirmation
          /\ Val(Val(last'.result).action).intent = CascadeOf[Said].intent
          /\ user_contexts'[Who].confirmation_pending = Val(last'.result).action
          /\ user_contexts'[Who].state = "awaiting_confirmation"
          /\ user_contexts'[Who].conversation_history = HistoryBefore(Who)]_vars

\* An edit request was answered with a confirmation prompt, after an earlier
\* turn had been recorded in the history.
C3_Witness ==
  /\ last.path = "prompt"
  /\ Val(last.result).needs_confirmation
  /\ Val(Val(last.result).action).intent = "EDIT_LEAD"
  /\ user_contexts[last.user].confirmation_pending = Val(last.result).action
  /\ Len(user_contexts[last.user].conversation_history) = 1

\* C4: when the turn finds the user awaiting confirmation of a pending
\* action P and the reply is affirmative (a yes/confirm token such as "yes"
\* or "okej", on which tier 3 yields CONFIRM, or any other text that the
\* orchestrator's own word test reads as affirmative), it passes P to
\* _execute_action in confirmed mode, and ends with the state idle, no
\* pending action and needs_confirmation = false in the result.
C4_YesExecutesPending ==
  [][(/\ TurnStep
      /\ LivePending(Who)
      /\ (CascadeOf[Said].intent = "CONFIRM" \/ ReplyIsYes(Said)))
       => /\ last'.path = "confirmed"
          /\ last'.executed =
               Some([action |-> PendingOf(Who), confirmed |-> TRUE])
          /\ user_contexts'[Who].state = "idle"
          /\ user_contexts'[Who].confirmation_pending = None
          /\ ~Val(last'.result).needs_confirmation]_vars

\* The scenario of the specification: a CREATE_LEAD action was pending, the
\* reply was "Yes", the lead was created and the context is idle again.
C4_Witness ==
  /\ last.text = Some(T_yes)
  /\ last.path = "confirmed"
  /\ Val(last.executed).action.intent = "CREATE_LEAD"
  /\ Val(last.result).response_type = "lead_created"
  /\ user_contexts[last.user].state = "idle"
  /\ user_contexts[last.user].confirmation_pending = None

\* C5: when the turn finds the user awaiting confirmation of a pending
\* action and the reply is negative (a no/cancel token: what tier 3 of
\* intent detection yields CANCEL on), it returns the cancellation
\* acknowledgment with needs_confirmation = false, the state becomes idle,
\* the pending action none, nothing is executed, and the turn history and
\* the last-referenced lead id stay as they were.
C5_NegativeReplyCancels ==
  [][(/\ TurnStep
      /\ LivePending(Who)
      /\ CascadeOf[Said].intent = "CANCEL")
       => /\ last'.path = "cancelled"
          /\ last'.executed = None
          /\ Val(last'.result).response = Msg("cancelled", <<>>)
          /\ ~Val(last'.result).needs_confirmation
          /\ user_contexts'[Who].state = "idle"
          /\ user_contexts'[Who].confirmation_pending = None
          /\ user_contexts'[Who].conversation_history
               = user_contexts[Who].conversation_history
          /\ user_contexts'[Who].last_lead_id = user_contexts[Who].last_lead_id]_vars

\* The part of C5 that the code keeps: the same, for the replies that the
\* orchestrator's own word test reads as negative (for example "no").
C5_NoCancelsPending ==
  [][(/\ TurnStep
      /\ LivePending(Who)
      /\ ReplyIsNo(Said))
       => /\ last'.path = "cancelled"
          /\ last'.executed = None
          /\ Val(last'.result).response = Msg("cancelled", <<>>)
          /\ ~Val(last'.result).needs_confirmation
          /\ user_contexts'[Who].state = "idle"
          /\ user_contexts'[Who].confirmation_pending = None
          /\ user_contexts'[Who].conversation_history
               = user_contexts[Who].conversation_history
          /\ user_contexts'[Who].last_lead_id = user_contexts[Who].last_lead_id]_vars

\* A pending delete of lead 12 was cancelled by "no": the context is idle,
\* still remembers lead 12 and the one turn recorded before.
C5_Witness ==
  /\ last.text = Some(T_no)
  /\ last.path = "cancelled"
  /\ user_contexts[last.user].state = "idle"
  /\ user_contexts[last.user].last_lead_id = Some(12)
  /\ Len(user_contexts[last.user].conversation_history) = 1

\* C6: when the turn finds the user awaiting confirmation of P and the
\* reply is neither affirmative nor negative (no yes/confirm and no
\* no/cancel token: tier 3 yields neither CONFIRM nor CANCEL on it), the
\* reply goes through intent detection and P is not cleared; if the detected
\* intent is not create/edit/delete, P is still pending and the state still
\* awaiting_confirmation after the turn, and an affirmative reply in the
\* user's next turn executes P.
C6_NeitherReplyKeepsPending ==
  [][/\ (/\ TurnStep
         /\ LivePending(Who)
         /\ CascadeOf[Said].intent \notin {"CONFIRM", "CANCEL"}
         /\ CascadeOf[Said].intent \notin Mutating)
          => /\ last'.path = "direct"
             /\ Val(last'.executed).action.intent = CascadeOf[Said].intent
             /\ ~Val(last'.executed).confirmed
             /\ user_contexts'[Who].confirmation_pending
                  = user_contexts[Who].confirmation_pending
             /\ user_contexts'[Who].state = "awaiting_confirmation"
     /\ (/\ TurnStep
         /\ last.path = "direct"
         /\ last.user = Who
         /\ LivePending(Who)
         /\ CascadeOf[Said].intent = "CONFIRM")
          => last'.executed =
               Some([action |-> PendingOf(Who), confirmed |-> TRUE])]_vars

\* The part of C6 that the code keeps: the same, for the replies that the
\* orchestrator's own word tests read as neither affirmative nor negative.
C6_NeitherKeepsPending ==
  [][/\ (/\ TurnStep
         /\ LivePending(Who)
         /\ ~ReplyIsYes(Said)
         /\ ~ReplyIsNo(Said)
         /\ CascadeOf[Said].intent \notin Mutating)
          => /\ last'.path = "direct"
             /\ Val(last'.executed).action.intent = CascadeOf[Said].intent
             /\ ~Val(last'.executed).confirmed
             /\ user_contexts'[Who].confirmation_pending
                  = user_contexts[Who].confirmation_pending
             /\ user_contexts'[Who].state = "awaiting_confirmation"
     /\ (/\ TurnStep
         /\ last.path = "direct"
         /\ last.user = Who
         /\ LivePending(Who)
         /\ ReplyIsYes(Said))
          => last'.executed =
               Some([action |-> PendingOf(Who), confirmed |-> TRUE])]_vars

\* "show leads" was answered while a delete was pending: the list was shown
\* and the delete is still armed.
C6_Witness ==
  /\ last.text = Some(T_show_leads)
  /\ last.path = "direct"
  /\ Val(last.executed).action.intent = "LIST_LEADS"
  /\ user_contexts[last.user].state = "awaiting_confirmation"
  /\ user_contexts[last.user].confirmation_pending # None
  /\ Val(user_contexts[last.user].confirmation_pending).intent = "DELETE_LEAD"

\* C7: while a confirmation is pending, only a reply that is a yes/confirm
\* token executes the pending action and only a reply that is a no/cancel
\* token cancels it; a reply that tier 1 or tier 2 of intent detection
\* recognises as a command is read as neither: it is evaluated fresh and
\* neither executes nor cancels the pending action.
C7_CommandNeitherExecutesNorCancels ==
  [][(/\ TurnStep
      /\ LivePending(Who))
       => /\ last'.path = "confirmed" => CascadeOf[Said].intent = "CONFIRM"
          /\ last'.path = "cancelled" => CascadeOf[Said].intent = "CANCEL"
          /\ CascadeOf[Said].tier \in {1, 2} => last'.path \in {"prompt", "direct"}]_vars

\* C8: on every reply that no tier-1/tier-2 rule matches, the orchestrator's
\* reading of a reply to a pending confirmation agrees with tier 3 of
\* intent detection: affirmative exactly when tier 3 yields CONFIRM,
\* negative exactly when tier 3 yields CANCEL.
C8_ReplyReadingAgreesWithTierThree ==
  [][(/\ TurnStep
      /\ LivePending(Who)
      /\ CascadeOf[Said].tier \notin {1, 2})
       => /\ last'.path = "confirmed" <=> CascadeOf[Said].intent = "CONFIRM"
          /\ last'.path = "cancelled" <=> CascadeOf[Said].intent = "CANCEL"]_vars

\* C9: a context whose last activity is older than the TTL is removed by
\* the next call on the store, whoever makes it; when its owner makes that
\* call, the context the call works on is brand new: get_context returns
\* state idle, no pending action, no last lead id or name and an empty
\* history, and a turn is not read as a reply to a confirmation, inherits
\* no lead id and leaves at most its own entry in the history.
C9_StaleContextIsReplaced ==
  [][CallStep =>
       \A v \in DOMAIN user_contexts :
         IsStale(user_contexts[v], now) =>
           /\ v # Who => v \notin DOMAIN user_contexts'
           /\ (v = Who /\ last'.op = "get_context") =>
                /\ user_contexts'[v].state = "idle"
                /\ user_contexts'[v].confirmation_pending = None
                /\ user_contexts'[v].last_lead_id = None
                /\ user_contexts'[v].last_lead_name = None
                /\ user_contexts'[v].conversation_history = <<>>
                /\ user_contexts'[v].last_seen_at = now
           /\ (v = Who /\ TurnStep) =>
                /\ last'.path \in {"prompt", "direct"}
                /\ user_contexts'[v].last_lead_id = CascadeOf[Said].entities.lead_id
                /\ Len(user_contexts'[v].conversation_history) <= 1
                /\ \A i \in 1..Len(user_contexts'[v].conversation_history) :
                     user_contexts'[v].conversation_history[i].timestamp = now]_vars

\* One get_context call found both users' contexts stale: the other user's
\* context (with a pending action) is gone, the caller's is brand new.
C9_Witness ==
  /\ last.op = "get_context"
  /\ DOMAIN last.swept = Users
  /\ \E v \in Users : v # last.user /\ HasPending(last.swept[v])
  /\ last.swept[last.user].conversation_history # <<>>
  /\ DOMAIN user_contexts = {last.user}
  /\ user_contexts[last.user] = NewContext(last.user, now)

\* C10: a pending action whose owner has not interacted for longer than the
\* TTL is never executed: a turn passes a pending action to _execute_action
\* in confirmed mode only if the owner's context held it and was not stale
\* when the turn began, and nothing but a call of the owner (no clock tick,
\* no call of another user) refreshes a context's last-activity time.
C10_StalePendingNeverExecuted ==
  [][/\ (TurnStep /\ last'.path \in {"confirmed", "cancelled"})
          => /\ Who \in DOMAIN user_contexts
             /\ user_contexts[Who].last_seen_at >= now - ContextTtl
             /\ HasPending(user_contexts[Who])
     /\ (TurnStep /\ last'.path = "confirmed")
          => Val(last'.executed).action = PendingOf(Who)
     /\ \A v \in DOMAIN user_contexts \cap DOMAIN user_contexts' :
          (~CallStep \/ v # Who)
            => user_contexts'[v].last_seen_at = user_contexts[v].last_seen_at]_vars

\* "Yes" arrived after the TTL had run out on a pending delete: the sweep
\* dropped the context with the pending action, and the reply executed no
\* delete.
C10_Witness ==
  /\ last.text = Some(T_yes)
  /\ last.user \in DOMAIN last.swept
  /\ HasPending(last.swept[last.user])
  /\ Val(last.swept[last.user].confirmation_pending).intent = "DELETE_LEAD"
  /\ last.path = "direct"
  /\ Val(last.executed).action.intent = "CONFIRM"
  /\ user_contexts[last.user].confirmation_pending = None

\* The history of Who after this step.
HistoryAfter == user_contexts'[Who].conversation_history

\* This step's turn reaches the add_turn call of _execute_action.
Recorded ==
  /\ last'.executed # None
  /\ Val(last'.executed).action.intent # "UNKNOWN"

\* C11: a context's turn history never holds more than 10 entries, and a
\* turn changes it only by appending its entry at the end; when the history
\* already holds 10, the oldest entry (the first) is the one dropped and the
\* other nine keep their order.
C11_HistoryKeepsLastTen ==
  /\ [](\A u \in DOMAIN user_contexts :
         Len(user_contexts[u].conversation_history) <= 10)
  /\ [][TurnStep =>
          \/ /\ ~Recorded
             /\ HistoryAfter = HistoryBefore(Who)
          \/ /\ Recorded
             /\ Len(HistoryBefore(Who)) < 10
             /\ Len(HistoryAfter) = Len(HistoryBefore(Who)) + 1
             /\ SubSeq(HistoryAfter, 1, Len(HistoryBefore(Who))) = HistoryBefore(Who)
             /\ HistoryAfter[Len(HistoryAfter)].action = Val(last'.executed).action
          \/ /\ Recorded
             /\ Len(HistoryBefore(Who)) = 10
             /\ Len(HistoryAfter) = 10
             /\ SubSeq(HistoryAfter, 1, 9) = SubSeq(HistoryBefore(Who), 2, 10)
             /\ HistoryAfter[10].action = Val(last'.executed).action]_vars

\* The twelfth turn of a session was recorded: the history holds ten
\* entries, the third to the twelfth turn, and the first two are gone.
C11_Witness ==
  /\ turns = 12
  /\ 1 \in DOMAIN user_contexts
  /\ Len(user_contexts[1].conversation_history) = 10
  /\ user_contexts[1].conversation_history[1].user_input = T_stats
  /\ user_contexts[1].conversation_history[10].user_input = T_show_leads
  /\ last.text = Some(T_show_leads)

\* C12: every turn that reaches _execute_action (directly, or through an
\* affirmative reply), a turn with intent UNKNOWN routed to the AI fallback
\* included, appends exactly one ConversationTurn, its own, to the user's
\* history.
C12_ExecutedTurnIsRecorded ==
  [][(/\ TurnStep
      /\ last'.path \in {"direct", "confirmed"})
       => /\ Len(HistoryAfter) = Len(HistoryBefore(Who)) + 1
          /\ SubSeq(HistoryAfter, 1, Len(HistoryBefore(Who))) = HistoryBefore(Who)
          /\ HistoryAfter[Len(HistoryAfter)].action = Val(last'.executed).action]_vars

\* C14: a turn of one user leaves the context of every other user as it
\* was, field for field (state, pending action, last lead id and name,
\* history, last-activity time); the one exception is that the other
\* user's context is evicted when its last activity is older than the TTL.
\* A turn creates no context for another user.
C14_OtherUsersUntouched ==
  [][TurnStep =>
       \A v \in Users \ {Who} :
         IF v \notin DOMAIN user_contexts
           THEN v \notin DOMAIN user_contexts'
         ELSE IF user_contexts[v].last_seen_at < now - ContextTtl
           THEN v \notin DOMAIN user_contexts'
         ELSE /\ v \in DOMAIN user_contexts'
              /\ user_contexts'[v] = user_contexts[v]]_vars

\* A turn of one user was executed while the other user, last seen
\* earlier but within the TTL, had a pending delete and a recorded turn:
\* both are still there.
C14_Witness ==
  /\ last.op = "process_text"
  /\ last.path = "direct"
  /\ \E v \in DOMAIN user_contexts :
       /\ v # last.user
       /\ user_contexts[v].last_seen_at < now
       /\ HasPending(user_contexts[v])
       /\ Val(user_contexts[v].confirmation_pending).intent = "DELETE_LEAD"
       /\ Len(user_contexts[v].conversation_history) = 1

\* The Action that lines 590-593 of this step's turn resolved: the one
\* stored as pending and returned with the prompt, or the one executed.
ResolvedAction ==
  IF last'.path = "prompt"
    THEN Val(Val(last'.result).action)
    ELSE Val(last'.executed).action

\* This step is a turn that reaches intent detection.
DetectingTurn == TurnStep /\ last'.path \in {"prompt", "direct"}

\* The last lead id of u as this step's turn finds it.
LastLeadBefore(u) ==
  IF u \in DOMAIN user_contexts /\ ~IsStale(user_contexts[u], now)
    THEN user_contexts[u].last_lead_id
    ELSE None

\* C15: when the text holds a back-reference token and names no lead id,
\* the resolved Action carries the context's last lead id L (last lead 42
\* and "add a note to him" give ADD_NOTE with lead id 42); when the context
\* has no last lead id, no lead id is supplied.
C15_BackReferenceResolvesToLastLead ==
  [][(/\ DetectingTurn
      /\ ReplyOf[Said].pronoun
      /\ LeadIdOf[Said] = None)
       => /\ ResolvedAction.entities.lead_id = LastLeadBefore(Who)
          /\ Said = T_add_a_note_to_him => ResolvedAction.intent = "ADD_NOTE"]_vars

\* The scenario of the specification: the last lead was set to 42 and
\* "add a note to him" was resolved to ADD_NOTE for lead 42.
C15_Witness ==
  /\ last.text = Some(T_add_a_note_to_him)
  /\ last.path = "direct"
  /\ Val(last.executed).action.intent = "ADD_NOTE"
  /\ Val(last.executed).action.entities.lead_id = Some(42)
  /\ user_contexts[last.user].last_lead_id = Some(42)

\* The lead id of the Action that the previous call, a turn through intent
\* detection, resolved.
PreviousLeadId ==
  IF last.path = "prompt"
    THEN Val(Val(last.result).action).entities.lead_id
    ELSE Val(last.executed).action.entities.lead_id

\* C16: after a turn that goes through intent detection and yields an
\* Action with lead id X, the user's last lead id is X, whether the turn
\* executes or ends in a pending confirmation; and the user's next turn
\* through intent detection, if its text names no lead id, yields an Action
\* with lead id X.
C16_LastLeadFollowsAction ==
  [][/\ (/\ DetectingTurn
         /\ ResolvedAction.entities.lead_id # None)
          => user_contexts'[Who].last_lead_id = ResolvedAction.entities.lead_id
     /\ (/\ DetectingTurn
         /\ last.path \in {"prompt", "direct"}
         /\ last.user = Who
         /\ ~IsStale(user_contexts[Who], now)
         /\ PreviousLeadId # None
         /\ LeadIdOf[Said] = None)
          => ResolvedAction.entities.lead_id = PreviousLeadId]_vars

\* The intents of which a phrase occurs in the text, and those of which a
\* keyword and a verb occur.
PhraseIntents(text) == {PATTERNS[k].intent : k \in PhraseMatches(Lower(text))}

KeywordVerbIntents(text) ==
  {PATTERNS[k].intent : k \in KeywordVerbMatches(Lower(text))}

\* C17: for a text that names no lead id and a supplied context whose last
\* lead id is L, detect returns an Action with lead id L, whichever tier
\* decides and also when none does (UNKNOWN).
C17_DetectBorrowsLastLead ==
  (/\ probe # None
   /\ LeadIdOf[Val(probe).text] = None
   /\ Val(probe).current_context # None
   /\ Val(Val(probe).current_context).last_lead_id # None)
    => Val(probe).action.entities.lead_id
         = Val(Val(probe).current_context).last_lead_id

\* C18: two calls of detect on the same text, with whatever contexts (or
\* none), return the same intent and the same confidence, and Actions that
\* differ in nothing but the lead id; and the context handed to detect is
\* after the call what it was before.
C18_ContextChangesOnlyLeadId ==
  [][(/\ probe # None
      /\ probe' # None
      /\ Val(probe').text = Val(probe).text)
       => /\ Val(probe').action.intent = Val(probe).action.intent
          /\ Val(probe').action.confidence = Val(probe).action.confidence
          /\ [Val(probe').action EXCEPT !.entities.lead_id = None]
               = [Val(probe).action EXCEPT !.entities.lead_id = None]
          /\ Val(probe').context_after = Val(probe').current_context]_vars

\* "show leads" was given to detect with a context that remembers lead 42:
\* tier 1 decided and the Action borrowed the lead id.
C18_Witness ==
  /\ probe # None
  /\ Val(probe).text = T_show_leads
  /\ Val(probe).current_context # None
  /\ Val(probe).action.intent = "LIST_LEADS"
  /\ Val(probe).action.confidence = 90
  /\ Val(probe).action.entities.lead_id = Some(42)

\* C19: when a phrase of some intent occurs in the text and keyword and
\* verb of a different intent occur too, detect returns an intent whose
\* phrase occurs, with confidence 0.9, and never an intent that only the
\* keyword + verb rule matches.
C19_PhraseOutranksKeywordVerb ==
  (/\ probe # None
   /\ \E a \in PhraseIntents(Val(probe).text) :
        \E b \in KeywordVerbIntents(Val(probe).text) : a # b)
    => /\ Val(probe).action.intent \in PhraseIntents(Val(probe).text)
       /\ Val(probe).action.confidence = 90

\* "show stats for leads": the phrase of STATS and keyword + verb of
\* LIST_LEADS, which comes earlier in the table; detect returned STATS.
C19_Witness ==
  /\ probe # None
  /\ Val(probe).text = T_show_stats_for_leads
  /\ "LIST_LEADS" \in KeywordVerbIntents(T_show_stats_for_leads)
  /\ Val(probe).action.intent = "STATS"
  /\ Val(probe).action.confidence = 90

\* C20: when no phrase occurs in the text and keyword and verb of several
\* intents do, detect returns, with confidence 0.8, the one of them that
\* comes first in the order CREATE_LEAD, LIST_LEADS, SHOW_NOTES, ADD_NOTE,
\* STATS, SEARCH, SALES, ANALYZE_LEAD, EDIT_LEAD, DELETE_LEAD.
C20_FirstDeclaredIntentWins ==
  LET order == <<"CREATE_LEAD", "LIST_LEADS", "SHOW_NOTES", "ADD_NOTE",
                 "STATS", "SEARCH", "SALES", "ANALYZE_LEAD", "EDIT_LEAD",
                 "DELETE_LEAD">>
      Pos(intent) == CHOOSE i \in 1..Len(order) : order[i] = intent
  IN
  (/\ probe # None
   /\ PhraseIntents(Val(probe).text) = {}
   /\ Cardinality(KeywordVerbIntents(Val(probe).text)) >= 2)
    => /\ Val(probe).action.intent \in KeywordVerbIntents(Val(probe).text)
       /\ \A other \in KeywordVerbIntents(Val(probe).text) :
            Pos(Val(probe).action.intent) <= Pos(other)
       /\ Val(probe).action.confidence = 80

\* A text with keyword and verb of both EDIT_LEAD and DELETE_LEAD and no
\* phrase: detect returned EDIT_LEAD.
C20_Witness ==
  /\ probe # None
  /\ Val(probe).text = T_vydaly_ta_zminy_lid
  /\ KeywordVerbIntents(T_vydaly_ta_zminy_lid) = {"EDIT_LEAD", "DELETE_LEAD"}
  /\ PhraseIntents(T_vydaly_ta_zminy_lid) = {}
  /\ Val(probe).action.intent = "EDIT_LEAD"
  /\ Val(probe).action.confidence = 80

\* The first of the suspended calls that the step can have resumed.
ResumedCall ==
  CHOOSE i \in 1..Len(inflight) : inflight' = Resumed(inflight, i)

\* A turn of a user has been applied to the store while an earlier turn of
\* the same user was still waiting for its transcript.
C13_Overtaken ==
  /\ Len(inflight') < Len(inflight)
  /\ last'.path # "no_transcript"
  /\ \E j \in 1..(ResumedCall - 1) :
       /\ inflight[j].user = last'.user
       /\ TruthyStr(inflight[j].transcript)

\* C13: the turns of one user are applied to that user's context in the
\* order they were submitted, also when they are issued concurrently and
\* their transcriptions finish in another order: a turn is never applied
\* while an earlier turn of the same user is still suspended.
C13_SameUserInSubmissionOrder == [][~C13_Overtaken]_vars

\* Does one of the bare reply tokens of tier 3 occur in the text.
ReplyTokenIn(text) ==
  \/ ContainsAny(Lower(text), TierThreeConfirmWords)
  \/ ContainsAny(Lower(text), TierThreeCancelWords)

\* C21: the confidence of detect's Action names the tier that decided: 0.9
\* exactly when a phrase occurs; 0.8 exactly when none does and keyword and
\* verb of an intent occur; 0.95 exactly when the intent is CONFIRM or
\* CANCEL, which happens only when neither of the former matches (and a
\* reply token occurs); 0.3 exactly when the intent is UNKNOWN, which
\* happens only when no tier matches.
C21_ConfidenceNamesTier ==
  probe # None =>
    LET text == Val(probe).text
        action == Val(probe).action
        phrase == PhraseIntents(text) # {}
        keyverb == KeywordVerbIntents(text) # {}
    IN
    /\ action.confidence \in {90, 80, 95, 30}
    /\ action.confidence = 90 <=> phrase
    /\ action.confidence = 80 <=> (~phrase /\ keyverb)
    /\ action.confidence = 95 <=> action.intent \in {"CONFIRM", "CANCEL"}
    /\ action.intent \in {"CONFIRM", "CANCEL"}
         <=> (~phrase /\ ~keyverb /\ ReplyTokenIn(text))
    /\ action.confidence = 30 <=> action.intent = "UNKNOWN"
    /\ action.intent = "UNKNOWN"
         <=> (~phrase /\ ~keyverb /\ ~ReplyTokenIn(text))
    /\ action.confidence = 90 => action.intent \in PhraseIntents(text)
    /\ action.confidence = 80 => action.intent \in KeywordVerbIntents(text)

\* "show and add a note" holds the reply token "no" and keyword and verb of
\* ADD_NOTE but no phrase: tier 2 decided, with 0.8.
C21_Witness ==
  /\ probe # None
  /\ Val(probe).text = T_show_and_add_a_note
  /\ ReplyTokenIn(T_show_and_add_a_note)
  /\ PhraseIntents(T_show_and_add_a_note) = {}
  /\ Val(probe).action.confidence = 80

\* No lead id is to be had for this step's turn: the text names none and
\* the user's context, which is all that reference resolution and the
\* context fill-in draw on, remembers none.
NoLeadIdAvailable == LeadIdOf[Said] = None /\ LastLeadBefore(Who) = None

\* The type tag of the response this step's turn returned.
ResponseType == Val(last'.result).response_type

\* C22: an ADD_NOTE turn for which no lead id is available (from the text,
\* from reference resolution or from the context) or whose note content is
\* empty, and an ANALYZE_LEAD turn for which no lead id is available,
\* returns a response of type error, never note_added or analysis.
C22_MissingLeadOrNoteIsError ==
  [][(DetectingTurn /\ last'.path = "direct")
       => /\ (/\ ResolvedAction.intent = "ADD_NOTE"
              /\ \/ NoLeadIdAvailable
                 \/ ~TruthyStr(extract_entities(Said).note_content))
               => ResponseType = "error"
          /\ (/\ ResolvedAction.intent = "ANALYZE_LEAD"
              /\ NoLeadIdAvailable)
               => ResponseType = "error"]_vars

\* A note with a content but for no lead, by a user whose context remembers
\* no lead, was answered with an error.
C22_Witness ==
  /\ last.text = Some(T_dodaj_notatku_dzvin)
  /\ last.path = "direct"
  /\ Val(last.executed).action.intent = "ADD_NOTE"
  /\ Val(last.executed).action.entities.note_content # None
  /\ user_contexts[last.user].last_lead_id = None
  /\ Val(last.result).response_type = "error"

\* The responses that only _ai_fallback gives.
FallbackResponses ==
  {Msg("clarify", <<>>), Msg("ai_response", <<>>), Msg("could_not_process", <<>>)}

\* C23: the AI fallback is entered only for a turn whose intent is UNKNOWN
\* (only such a turn returns one of its responses or makes a request); and
\* without a key it returns the fixed clarifying prompt and the hint with
\* example phrasings and attempts no request, neither the fetch of the
\* leads nor the completion.
C23_FallbackOnlyForUnknownAndOffline ==
  [][TurnStep =>
       /\ (\/ Val(last'.result).response \in FallbackResponses
           \/ last'.requests # <<>>)
            => /\ last'.executed # None
               /\ Val(last'.executed).action.intent = "UNKNOWN"
       /\ (/\ last'.executed # None
           /\ Val(last'.executed).action.intent = "UNKNOWN"
           /\ ~openai_api_key)
            => /\ Val(last'.result).response = Msg("clarify", <<>>)
               /\ Val(last'.result).followup_hint = Some("examples")
               /\ Val(last'.result).needs_confirmation = FALSE
               /\ last'.requests = <<>>]_vars

\* "hello" without a key: the clarifying prompt, and no request.
C23_Witness ==
  /\ ~openai_api_key
  /\ last.text = Some(T_hello)
  /\ Val(last.executed).action.intent = "UNKNOWN"
  /\ Val(last.result).response = Msg("clarify", <<>>)
  /\ last.requests = <<>>

\* The state tag and the pending action of u as this step's turn finds
\* them: those of a context that survives the sweep, else of a new one.
StateBefore(u) ==
  IF u \in DOMAIN user_contexts /\ ~IsStale(user_contexts[u], now)
    THEN user_contexts[u].state
    ELSE "idle"

ConfirmationBefore(u) ==
  IF u \in DOMAIN user_contexts /\ ~IsStale(user_contexts[u], now)
    THEN user_contexts[u].confirmation_pending
    ELSE None

\* C24: with a key, whatever the fetch of the leads and the completion
\* request meet (timeout, another status, an exception, a malformed body),
\* the turn returns a structured result; when the completion failed it is
\* the fixed "could not process" response with needs_confirmation false (a
\* failed fetch alone leaves the completion's answer in place); and the
\* user's state tag and pending action are what the turn found.
C24_BackendFailureIsAnswered ==
  [][(TurnStep /\ last'.requests # <<>>)
       => /\ last'.result # None
          /\ Val(last'.result).success = TRUE
          /\ Val(last'.result).text = Some(Said)
          /\ Val(last'.result).needs_confirmation = FALSE
          /\ last'.requests[2].met # "ok"
               => Val(last'.result).response = Msg("could_not_process", <<>>)
          /\ last'.requests[2].met = "ok"
               => Val(last'.result).response = Msg("ai_response", <<>>)
          /\ user_contexts'[Who].state = StateBefore(Who)
          /\ user_contexts'[Who].confirmation_pending = ConfirmationBefore(Who)]_vars

\* A turn of a user with a pending delete met a timeout of the fetch and a
\* malformed body of the completion: the fixed response, the delete still
\* pending.
C24_Witness ==
  /\ last.requests # <<>>
  /\ last.requests[1].met = "timeout"
  /\ last.requests[2].met = "malformed"
  /\ Val(last.result).response = Msg("could_not_process", <<>>)
  /\ user_contexts[last.user].state = "awaiting_confirmation"
  /\ Val(user_contexts[last.user].confirmation_pending).intent = "DELETE_LEAD"

\* This step is a process_voice call, transcription included.
VoiceStep == CallStep /\ last'.op = "process_voice"

\* C25: transcription tries the providers in the order local, HuggingFace,
\* OpenAI; a provider is invoked only if it is configured and every
\* earlier one was unconfigured, failed or returned an empty text; the
\* first non-empty transcript is the text given to process_text; and when
\* no provider yields a text the call returns the could-not-recognise
\* response with success false, without intent detection.
C25_ProvidersInOrder ==
  [][VoiceStep =>
       LET order == <<"local", "huggingface", "openai">>
           Pos(p) == CHOOSE i \in 1..Len(order) : order[i] = p
           configured == [local |-> FASTER_WHISPER_AVAILABLE,
                          huggingface |-> huggingface_token,
                          openai |-> openai_api_key]
           invoked == last'.transcription
           Yielded == {i \in 1..Len(invoked) :
                         invoked[i].result \notin {None, Some(<<>>)}}
       IN
       /\ \A i, j \in 1..Len(invoked) :
            i < j => Pos(invoked[i].provider) < Pos(invoked[j].provider)
       /\ \A i \in 1..Len(invoked) :
            /\ configured[invoked[i].provider]
            /\ \A k \in 1..(Pos(invoked[i].provider) - 1) :
                 \/ ~configured[order[k]]
                 \/ \E j \in 1..(i - 1) :
                      /\ invoked[j].provider = order[k]
                      /\ invoked[j].result \in {None, Some(<<>>)}
       /\ Yielded # {}
            => /\ Yielded = {Len(invoked)}
               /\ last'.text = invoked[Len(invoked)].result
               /\ last'.path # "no_transcript"
       /\ Yielded = {}
            => /\ \A k \in 1..Len(order) :
                    configured[order[k]]
                      => \E i \in 1..Len(invoked) : invoked[i].provider = order[k]
               /\ last'.text = None
               /\ last'.path = "no_transcript"
               /\ last'.executed = None
               /\ Val(last'.result).success = FALSE
               /\ Val(last'.result).action = None
               /\ Val(last'.result).response = Msg("voice_not_recognised", <<>>)
               /\ user_contexts' = user_contexts]_vars

\* The local provider heard nothing, HuggingFace failed and OpenAI
\* returned "Yes": all three were invoked and "Yes" was the turn's text.
C25_Witness ==
  /\ last.op = "process_voice"
  /\ Len(last.transcription) = 3
  /\ last.transcription[1] = [provider |-> "local", result |-> Some(<<>>)]
  /\ last.transcription[2] = [provider |-> "huggingface", result |-> None]
  /\ last.transcription[3] = [provider |-> "openai", result |-> Some(T_yes)]
  /\ last.text = Some(T_yes)

\* C26: the dict that process_text or process_voice returns has, on every
\* path (confirmation prompt, confirmed execution, cancellation, direct
\* execution, AI fallback, transcription failure), the keys success, text,
\* action, response, response_type and needs_confirmation.
C26_ResultHasEveryKey ==
  (last.op \in {"process_text", "process_voice"} /\ last.result # None)
    => {"success", "text", "action", "response", "response_type",
        "needs_confirmation"} \subseteq DOMAIN Val(last.result)

\* A text has been assessed.
Assessed == probe # None /\ Val(probe).op = "assess_transcription_quality"

\* C27: for every text the score is within [0, 1] (0..100 hundredths), the
\* label is HIGH exactly when the score is at least 0.75, MEDIUM exactly
\* when it is at least 0.5 and below 0.75, LOW otherwise, and
\* needs_clarification is true exactly when the label is LOW (score < 0.5).
C27_LabelFollowsScore ==
  Assessed =>
    LET q == Val(probe).quality IN
    /\ q.score \in 0..100
    /\ q.label \in {"HIGH", "MEDIUM", "LOW"}
    /\ q.label = "HIGH" <=> q.score >= 75
    /\ q.label = "MEDIUM" <=> (q.score >= 50 /\ q.score < 75)
    /\ q.label = "LOW" <=> q.score < 50
    /\ q.needs_clarification <=> q.label = "LOW"
    /\ q.needs_clarification <=> q.score < 50

\* One word of six letters and nothing else wrong: exactly 0.75, HIGH.
C27_Witness ==
  /\ Assessed
  /\ Val(probe).text = <<"a", "a", "b", "a", "a", "b">>
  /\ Val(probe).quality.score = 75
  /\ Val(probe).quality.label = "HIGH"
  /\ ~Val(probe).quality.needs_clarification

\* C28: for every text, the empty string included, the score is max(0, 1
\* minus the penalties of the checks that trigger): 0.4 for an empty or
\* near-empty text, 0.25 for fewer than 2 tokens, 0.2 for more than 20% of
\* noise characters, 0.15 for a character 5 or more times in a row.
C28_ScoreIsOneMinusPenalties ==
  Assessed =>
    Val(probe).quality.score
      = Max(0, 100 - SumPenalties(TriggeredChecks(Strip(Val(probe).text))))

NextConfirm ==
  \/ \E u \in Users, i \in LeadIds, n \in LeadNames : UpdateContextLead(u, i, n)
  \/ \E u \in Users, text \in ConfirmTexts : ProcessText(u, text)

SpecConfirm == InitTtl /\ [][NextConfirm]_vars

\* The last call was a process_text turn that detected an intent (no reply
\* to a pending confirmation), and the Action it detected.
Detected == last.op = "process_text" /\ last.path \in {"prompt", "direct"}

DetectedAction ==
  IF last.path = "prompt" THEN Val(Val(last.result).action)
  ELSE Val(last.executed).action

\* The values that the last prompt shows, in the order of its template.
Shown == Val(last.result).response.args

\* The scenario: "delete lead #12" is answered by the prompt of a
\* DELETE_LEAD that shows 12.
DeleteLead12Prompted ==
  (last.op = "process_text" /\ last.text = Some(T_delete_lead_12)) =>
    /\ last.path = "prompt"
    /\ Val(Val(last.result).action).intent = "DELETE_LEAD"
    /\ Val(last.result).needs_confirmation
    /\ Contains(Shown[1], <<"1", "2">>)

\* A create, edit or delete is answered by a prompt, whatever is missing.
MutationPrompted ==
  (Detected /\ needs_confirmation(DetectedAction)) =>
    /\ last.path = "prompt"
    /\ Val(last.result).needs_confirmation
    /\ HasPending(user_contexts[last.user])

\* The prompt of a create shows a placeholder for each field that the
\* action lacks.
CreatePlaceholders ==
  (Detected /\ DetectedAction.intent = "CREATE_LEAD") =>
    /\ DetectedAction.entities.lead_name = None => Shown[1] = Dash
    /\ DetectedAction.entities.phone = None => Shown[2] = Dash
    /\ DetectedAction.entities.email = None => Shown[3] = Dash
    /\ DetectedAction.entities.source = None => Shown[4] = "MANUAL"

EditPlaceholder ==
  (Detected /\ DetectedAction.intent = "EDIT_LEAD") =>
    (DetectedAction.entities.lead_id = None => Shown[1] = Dash)

DeletePlaceholder ==
  (Detected /\ DetectedAction.intent = "DELETE_LEAD") =>
    (DetectedAction.entities.lead_id = None => Shown[1] = Dash)

\* C30: "delete lead #12" is answered by the confirmation prompt of a
\* DELETE_LEAD that contains 12, and every create, edit or delete is
\* answered by a prompt that shows a placeholder for each field the action
\* lacks.
C30_PromptShowsIdOrPlaceholder ==
  /\ DeleteLead12Prompted
  /\ MutationPrompted
  /\ CreatePlaceholders
  /\ EditPlaceholder
  /\ DeletePlaceholder

(***************************************************************************)
(* The state tag                                                           *)
(***************************************************************************)

\* A command that is gated, the two replies and a command that is not.
TagTexts == {T_new_lead, T_yes, T_no, T_show_leads}

\* Every call that reaches set_confirmation or clear_confirmation, directly
\* or through a turn, with the clock advancing between the calls.
NextTag ==
  \/ Tick
  \/ \E u \in Users : GetContext(u)
  \/ \E u \in Users, a \in ApiActions : SetConfirmation(u, a)
  \/ \E u \in Users : ClearConfirmation(u)
  \/ \E u \in Users, text \in TagTexts : ProcessText(u, text)

SpecTag == InitTtl /\ [][NextTag]_vars

\* The values of UserContext.state that the code writes (98, 416, 422).
StateTags == {"idle", "awaiting_confirmation"}

\* This step calls set_confirmation for u: directly, or at the gate of a
\* turn (line 602).
SetsConfirmation(u) ==
  /\ last'.user = u
  /\ last'.op = "set_confirmation" \/ last'.path = "prompt"

\* This step calls clear_confirmation for u: directly, in the cancelled
\* branch of a turn (line 580) or in _execute_action (line 661).
ClearsConfirmation(u) ==
  /\ last'.user = u
  /\ last'.op = "clear_confirmation" \/ last'.path \in {"cancelled", "confirmed"}

\* Before this step u has a context that the sweep of the step keeps.
Kept(u) == u \in DOMAIN user_contexts /\ ~IsStale(user_contexts[u], now)

\* C31: the state tag of every context is idle or awaiting_confirmation
\* (never editing); a context created by a call is idle unless that same
\* call sets a confirmation; and the tag of a context that a call keeps
\* changes to awaiting_confirmation only in a call of set_confirmation and
\* to idle only in a call of clear_confirmation.
C31_StateTagOnlyByConfirmation ==
  [][CallStep =>
       \A u \in DOMAIN user_contexts' :
         LET tag == user_contexts'[u].state IN
         /\ tag \in StateTags
         /\ ~Kept(u) => (tag = "idle" \/ SetsConfirmation(u))
         /\ (Kept(u) /\ tag # user_contexts[u].state) =>
              /\ tag = "awaiting_confirmation" => SetsConfirmation(u)
              /\ tag = "idle" => ClearsConfirmation(u)]_vars

\* A context that awaited a confirmation went stale and its user's next
\* call made a new, idle one.
C31_Witness ==
  /\ last.op = "get_context"
  /\ last.user \in DOMAIN last.swept
  /\ last.swept[last.user].state = "awaiting_confirmation"
  /\ user_contexts[last.user].state = "idle"

(***************************************************************************)
(* The pending action                                                      *)
(***************************************************************************)

\* Requests that are gated, with and without a lead id, turns that read or
\* change the last lead while an action is pending, and the two replies.
PendingTexts ==
  {T_delete_lead_12, T_delete_lead, T_edit_lid_7, T_call_him, T_show_leads,
   T_yes, T_no}

NextPending ==
  \/ \E u \in Users, i \in LeadIds, n \in LeadNames : UpdateContextLead(u, i, n)
  \/ \E u \in Users, a \in ApiActions : SetConfirmation(u, a)
  \/ \E u \in Users, text \in PendingTexts : ProcessText(u, text)

SpecPending == InitTtl /\ [][NextPending]_vars

\* The Action that this step's set_confirmation stores: the argument of the
\* direct call, or the Action that the turn returns with its prompt.
StoredByStep ==
  IF last'.op = "set_confirmation"
    THEN {Some(a) : a \in ApiActions}
    ELSE {Val(last'.result).action}

\* C32: a stored pending Action stays as it was stored, field for field,
\* through every call of its user and of other users, until a call clears
\* it (or drops the context) or a call of set_confirmation stores another
\* Action in its place, whole.
C32_PendingStaysAsStored ==
  [][\A u \in DOMAIN user_contexts \cap DOMAIN user_contexts' :
       (/\ user_contexts[u].confirmation_pending # None
        /\ user_contexts'[u].confirmation_pending
             # user_contexts[u].confirmation_pending)
         => \/ user_contexts'[u].confirmation_pending = None
            \/ /\ SetsConfirmation(u)
               /\ user_contexts'[u].confirmation_pending \in StoredByStep]_vars

\* A pending deletion of lead 12 is still whole after its user named
\* another lead and after another user's turn.
C32_Witness ==
  /\ turns = 3
  /\ \E u \in DOMAIN user_contexts :
       /\ u # last.user
       /\ user_contexts[u].confirmation_pending # None
       /\ Val(user_contexts[u].confirmation_pending).intent = "DELETE_LEAD"
       /\ Val(user_contexts[u].confirmation_pending).entities.lead_id = Some(12)
       /\ user_contexts[u].last_lead_id = Some(42)

(***************************************************************************)
(* The sweep                                                               *)
(***************************************************************************)

\* A command that is recorded in the history, a request that names a lead
\* and is gated, and the reply that executes it.
SweepTexts == {T_show_leads, T_delete_lead_12, T_yes}

NextSweep ==
  \/ Tick
  \/ \E u \in Users : GetContext(u)
  \/ \E u \in Users, text \in SweepTexts : ProcessText(u, text)

SpecSweep == InitTtl /\ [][NextSweep]_vars

\* Before this step, u's last activity is older than the TTL.
OlderThanTtl(u) == now - user_contexts[u].last_seen_at > ContextTtl

\* Every turn of the history was recorded at time t.
RecordedAt(history, t) ==
  \A k \in 1..Len(history) : history[k].timestamp = t

IsPrefix(s, t) == Len(s) <= Len(t) /\ SubSeq(t, 1, Len(s)) = s

\* C33: a call made at some instant leaves in the store exactly the
\* contexts whose last activity was not older than the TTL, and the
\* caller's.  The others' contexts that it keeps are as they were; the
\* caller's context, if older than the TTL, starts anew (it holds nothing
\* from before the call), and otherwise keeps its history and last lead.
\* What the first store access of a turn wrote (the last lead, at line 597)
\* is still there after the later accesses of the same turn, and a sweep
\* run again at the same instant changes nothing.
C33_SweepDropsExactlyTheStale ==
  [][CallStep =>
       LET c == last'.user IN
       /\ DOMAIN user_contexts'
            = {u \in DOMAIN user_contexts : ~OlderThanTtl(u)} \cup {c}
       /\ \A u \in DOMAIN user_contexts \ {c} :
            ~OlderThanTtl(u) => user_contexts'[u] = user_contexts[u]
       /\ c \in DOMAIN user_contexts =>
            IF OlderThanTtl(c)
              THEN /\ RecordedAt(user_contexts'[c].conversation_history, now)
                   /\ user_contexts'[c].last_lead_name = None
                   /\ last'.op = "get_context" =>
                        user_contexts'[c] = NewContext(c, now)
              ELSE /\ IsPrefix(user_contexts[c].conversation_history,
                               user_contexts'[c].conversation_history)
                   /\ user_contexts[c].last_lead_id # None =>
                        user_contexts'[c].last_lead_id # None
       /\ last'.path = "prompt" =>
            /\ HasPending(user_contexts'[c])
            /\ user_contexts'[c].last_lead_id
                 = Val(Val(last'.result).action).entities.lead_id
       /\ cleanup_contexts(user_contexts', now) = user_contexts']_vars

\* A call made exactly one TTL after a context's last activity keeps it,
\* with its history, while the same call drops another user's context
\* that is older.
C33_Witness ==
  /\ last.op = "process_text"
  /\ last.swept # <<>>
  /\ Len(user_contexts[last.user].conversation_history) = 2
  /\ user_contexts[last.user].conversation_history[1].timestamp
       = now - ContextTtl

\* C34: the text field of the dict that a process_text turn returns is the
\* text given to that turn, on every path: a reply that confirms, a reply
\* that cancels, a prompt and a direct execution.
C34_ResultEchoesInput ==
  (last.op = "process_text" /\ last.result # None)
    => Val(last.result).text = last.text

\* The leads that the callers of update_context_lead name: (id, name).
LeadDirectory == {<<i, Val(n)>> : i \in LeadIds, n \in LeadNames}

\* C35: in every context, a last lead name that is set is the name of the
\* lead that the last lead id identifies (so that resolve_pronoun, which
\* returns the two together, never pairs an id with another lead's name).
C35_LastNameIsOfLastLead ==
  \A u \in DOMAIN user_contexts :
    user_contexts[u].last_lead_name # None =>
      /\ user_contexts[u].last_lead_id # None
      /\ <<Val(user_contexts[u].last_lead_id),
           Val(user_contexts[u].last_lead_name)>> \in LeadDirectory

(***************************************************************************)
(* A lead id named in the text                                             *)
(***************************************************************************)

NextId ==
  \/ \E u \in Users, i \in LeadIds, n \in LeadNames : UpdateContextLead(u, i, n)
  \/ \E u \in Users, text \in IdTexts : ProcessText(u, text)

SpecId == InitTtl /\ [][NextId]_vars

\* C36: when the text of a turn names a lead id n (0 included), the Action
\* that the turn resolves carries n, whatever the context's last lead id
\* and whatever back-reference the text holds, and n becomes the context's
\* last lead id.
C36_NamedLeadIdIsKept ==
  [][(DetectingTurn /\ LeadIdOf[Said] # None)
       => /\ ResolvedAction.entities.lead_id = LeadIdOf[Said]
          /\ user_contexts'[Who].last_lead_id = LeadIdOf[Said]]_vars

(***************************************************************************)
(* One pending action per user                                             *)
(***************************************************************************)

\* C37: a user has one pending action.  A turn that asks for confirmation
\* stores its Action in place of whatever was pending; an affirmative reply
\* to a pending action always takes the confirmed path; and the confirmed
\* path executes, in confirmed mode, exactly the Action that was pending
\* when the reply came, so an Action that was replaced is never executed.
C37_LatestPendingWins ==
  [][TurnStep =>
       /\ last'.path = "prompt"
            => /\ user_contexts'[Who].confirmation_pending
                    = Val(last'.result).action
               /\ user_contexts'[Who].state = "awaiting_confirmation"
       /\ (LivePending(Who) /\ ReplyIsYes(Said)) => last'.path = "confirmed"
       /\ last'.path = "confirmed"
            => /\ LivePending(Who)
               /\ last'.executed
                    = Some([action |-> Val(user_contexts[Who].confirmation_pending),
                            confirmed |-> TRUE])
       /\ (last'.executed # None /\ Val(last'.executed).confirmed)
            => last'.path = "confirmed"]_vars

\* An edit of lead 7 was pending, a deletion that borrowed lead 7 from the
\* context replaced it, and the reply "Yes" executed the deletion.
C37_Witness ==
  /\ turns = 3
  /\ last.path = "confirmed"
  /\ Val(last.executed).action.intent = "DELETE_LEAD"
  /\ Val(last.executed).action.entities.lead_id = Some(7)

(***************************************************************************)
(* A pending action is executed once                                       *)
(***************************************************************************)

\* C38: a stored pending action is executed in confirmed mode at most once.
\* The turn that executes it leaves its user idle with nothing pending; and
\* an affirmative reply of a user with nothing pending executes no create,
\* edit or delete action, executes nothing in confirmed mode and leaves the
\* user idle.
C38_ConfirmedAtMostOnce ==
  [][TurnStep =>
       /\ last'.path = "confirmed"
            => /\ user_contexts'[Who].state = "idle"
               /\ user_contexts'[Who].confirmation_pending = None
       /\ (ReplyIsYes(Said) /\ ~LivePending(Who))
            => /\ last'.path = "direct"
               /\ Val(last'.executed).action.intent \notin Mutating
               /\ ~Val(last'.executed).confirmed
               /\ user_contexts'[Who].state = "idle"
               /\ user_contexts'[Who].confirmation_pending = None]_vars

\* A deletion was confirmed by "Yes", and the same user said "Yes" again.
C38_Witness ==
  /\ turns = 3
  /\ last.text = Some(T_yes)
  /\ last.path = "direct"
  /\ last.user \in DOMAIN user_contexts
  /\ user_contexts[last.user].last_lead_id = Some(12)
  /\ user_contexts[last.user].state = "idle"
  /\ \A v \in Users \ {last.user} : v \notin DOMAIN user_contexts

(***************************************************************************)
(* The requires_confirmation flag                                          *)
(***************************************************************************)

\* C39: the Action that a turn returns with needs_confirmation = true, and
\* stores as pending, has requires_confirmation = TRUE; the Action that a
\* turn executes directly, returning needs_confirmation = false, has
\* requires_confirmation = FALSE.
C39_FlagFollowsTheGate ==
  [][DetectingTurn =>
       /\ last'.path = "prompt"
            => /\ Val(last'.result).needs_confirmation
               /\ ResolvedAction.requires_confirmation
               /\ Val(user_contexts'[Who].confirmation_pending).requires_confirmation
       /\ last'.path = "direct"
            => /\ ~Val(last'.result).needs_confirmation
               /\ ~ResolvedAction.requires_confirmation]_vars

(***************************************************************************)
(* The rule-based scorer (app/ai/fallback_scorer.py).  A score is counted  *)
(* in hundredths: the weights are multiples of 0.01, their float sum is    *)
(* off an exact multiple by far less than 0.0005, and round(..., 3) of     *)
(* line 74 returns the float of that multiple.                             *)
(***************************************************************************)

MaxMessageCount == 11

ScoreCap == 100

TransferThreshold == 60

NurtureThreshold == 30

LeadSource == {"SCANNER", "PARTNER", "MANUAL"}

ColdStage == {"NEW", "CONTACTED", "QUALIFIED", "TRANSFERRED", "LOST"}

\* The dict of lines 21-25 with the default of .get at line 26.
source_weights(source) ==
  CASE source = "PARTNER" -> 30
    [] source = "SCANNER" -> 20
    [] source = "MANUAL" -> 10
    [] OTHER -> 10

\* The dict of lines 63-67 with the default of .get at line 68.
stage_weights(stage) ==
  CASE stage = "QUALIFIED" -> 20
    [] stage = "CONTACTED" -> 10
    [] stage = "NEW" -> 0
    [] OTHER -> 0

\* "lead.message_count if lead.message_count else 0"
MessageCount(lead) ==
  IF TruthyInt(lead.message_count) THEN Val(lead.message_count) ELSE 0

ActivityWeight(mc) ==
  IF mc >= 10 THEN 25 ELSE IF mc >= 5 THEN 15 ELSE IF mc >= 2 THEN 8 ELSE 0

ActivityReason(mc) ==
  IF mc >= 10 THEN <<"high-activity">>
  ELSE IF mc >= 5 THEN <<"medium-activity">>
  ELSE IF mc >= 2 THEN <<"low-activity">>
  ELSE <<>>

ContactWeight(lead) ==
  IF TruthyStr(lead.email) /\ TruthyStr(lead.phone) THEN 15
  ELSE IF TruthyStr(lead.email) \/ TruthyStr(lead.phone) THEN 7
  ELSE 0

ContactReason(lead) ==
  IF TruthyStr(lead.email) /\ TruthyStr(lead.phone) THEN <<"full-contact">>
  ELSE IF TruthyStr(lead.email) \/ TruthyStr(lead.phone)
    THEN <<"partial-contact">>
  ELSE <<>>

B2bQualified(lead) == TruthyStr(lead.company) /\ TruthyStr(lead.position)

DomainSet(lead) == TruthyStr(lead.business_domain)

\* score just before line 74.
SummedWeights(lead) ==
  source_weights(lead.source)
    + ActivityWeight(MessageCount(lead))
    + ContactWeight(lead)
    + (IF B2bQualified(lead) THEN 10 ELSE 0)
    + (IF DomainSet(lead) THEN 15 ELSE 0)
    + stage_weights(lead.stage)

\* reasons just before line 83.
Reasons(lead) ==
  <<<<"source", lead.source, source_weights(lead.source)>>>>
    \o ActivityReason(MessageCount(lead))
    \o ContactReason(lead)
    \o (IF B2bQualified(lead) THEN <<"b2b-qualified">> ELSE <<>>)
    \o (IF DomainSet(lead) THEN <<"domain-set">> ELSE <<>>)
    \o (IF stage_weights(lead.stage) > 0
          THEN <<<<"stage", lead.stage, stage_weights(lead.stage)>>>>
          ELSE <<>>)

\* Line 74 without the min.
Capped_uncapped(score) == score

\* "round(min(score, 1.0), 3)"
Capped(score) == Min(score, ScoreCap)

Recommendation(score) ==
  IF score >= TransferThreshold THEN "transfer_to_sales"
  ELSE IF score >= NurtureThreshold THEN "continue_nurturing"
  ELSE "lost"

rule_based_score(lead) ==
  [score |-> Capped(SummedWeights(lead)),
   recommendation |-> Recommendation(Capped(SummedWeights(lead))),
   reason |-> [signals |-> Reasons(lead),
               score |-> Capped(SummedWeights(lead))]]

\* The values of a nullable text column: NULL, the empty string, a text.
TextColumn == {None, Some(<<>>), Some(<<"x">>)}

\* Leads of every source and stage, silent to active, with and without
\* contacts, company, position and domain.
Leads ==
  [source : LeadSource,
   message_count : {None} \cup {Some(n) : n \in 0..MaxMessageCount},
   email : TextColumn,
   phone : TextColumn,
   company : {None, Some(<<"x">>)},
   position : {None, Some(<<"x">>)},
   business_domain : {None, Some(<<"x">>)},
   stage : ColdStage]

\* A call of rule_based_score on the lead waiting in probe.
RuleBasedScore ==
  /\ probe # None
  /\ Val(probe).op = "lead"
  /\ probe' = Some([op |-> "rule_based_score",
                    lead |-> Val(probe).lead,
                    result |-> rule_based_score(Val(probe).lead)])
  /\ UNCHANGED <<user_contexts, now, openai_api_key, huggingface_token,
                 FASTER_WHISPER_AVAILABLE, turns, last, inflight>>

NextScore == RuleBasedScore

\* A lead to score.
InitScore ==
  /\ user_contexts = <<>>
  /\ now = 0
  /\ turns = 0
  /\ last = Call("none", 0, None, "none", None, None, <<>>)
  /\ inflight = <<>>
  /\ openai_api_key = FALSE
  /\ huggingface_token = FALSE
  /\ FASTER_WHISPER_AVAILABLE = TRUE
  /\ probe \in {Some([op |-> "lead", lead |-> lead]) : lead \in Leads}

SpecScore == InitScore /\ [][NextScore]_vars

\* This state follows a call of rule_based_score.
Scored == probe # None /\ Val(probe).op = "rule_based_score"

\* C40: for every lead, rule_based_score returns a score between 0.0 and
\* 1.0, which is 1.0 when the weights sum to more than 1.0 and their sum
\* otherwise, and the recommendation transfer_to_sales exactly when the
\* score is at least 0.6, continue_nurturing exactly when it is at least
\* 0.3 and below 0.6, and lost otherwise.
C40_ScoreBoundedAndRecommended ==
  Scored =>
    /\ Val(probe).result.score \in 0..ScoreCap
    /\ Val(probe).result.score
         = IF SummedWeights(Val(probe).lead) > ScoreCap
             THEN ScoreCap
             ELSE SummedWeights(Val(probe).lead)
    /\ Val(probe).result.recommendation = "transfer_to_sales"
         <=> Val(probe).result.score >= TransferThreshold
    /\ Val(probe).result.recommendation = "continue_nurturing"
         <=> /\ Val(probe).result.score >= NurtureThreshold
             /\ Val(probe).result.score < TransferThreshold
    /\ Val(probe).result.recommendation = "lost"
         <=> Val(probe).result.score < NurtureThreshold

\* A lead whose weights sum to more than 1.0 was scored 1.0.
C40_Witness ==
  /\ Scored
  /\ SummedWeights(Val(probe).lead) > ScoreCap
  /\ Val(probe).result.score = ScoreCap
  /\ Val(probe).result.recommendation = "transfer_to_sales"

====
